---- MODULE Spec2Model ----
(***************************************************************************)
(* Host side of the Spinel protocol (twine-rs/spinel): the packed integer, *)
(* command, frame and HDLC-Lite codecs as operators on byte sequences, and *)
(* the host connection actor (PosixSpinelHost) as a state machine.          *)
(* Bytes are integers 0..255; Rust's 0-based offsets are kept and          *)
(* translated to TLA+'s 1-based sequences by At and Slice.                 *)
(***************************************************************************)
EXTENDS Integers, Sequences, FiniteSets, TLC

VARIABLES
    actor,          \* the spawned task: "running", "sending" (in send_request, between
                    \* send_frame and lut.insert) or "panicked"
    iid,            \* PosixSpinelHost::iid
    tid,            \* PosixSpinelHost::tid
    lut,            \* PosixSpinelHost::lut, TID -> the request whose one-shot sender it holds
    msg,            \* PosixSpinelHost::msg, the mpsc queue of host messages
    handles,        \* live clones of PosixSpinelHostHandle (senders of msg)
    calls,          \* handle calls made so far
    awaiting,       \* client side: TID -> callers awaiting the response to a frame sent with it
    io,             \* bytes the device has written that Framed has not read yet
    rbuf,           \* Framed's read buffer
    is_readable,    \* Framed read state: the buffer may hold a frame
    has_errored,    \* Framed read state: the decoder returned Err on the last poll
    streamOff,      \* select!: the stream branch is disabled in the current iteration
    bus,            \* frames published on each broadcast bus, oldest first
    rxCount,        \* chunks the device has written so far
    lastTx,         \* TID of the last frame transmitted since start or reset (0: none)
    ev,             \* the step just taken and what it did
    subs,           \* broadcast receivers handed out: the bus and the next frame to receive
    codec,          \* a frame taken through HdlcLiteFrame::encode and ::decode
    device          \* the device's side: the requests it has received and the one it answered last

vars == <<actor, iid, tid, lut, msg, handles, calls, awaiting, io, rbuf,
          is_readable, has_errored, streamOff, bus, rxCount, lastTx, ev, subs, codec,
          device>>

----------------------------------------------------------------------------
(* Bounds of the model *)

MaxCalls == 2          \* handle calls in Spec
MaxRx == 1             \* device writes in Spec
MaxQueue == 1          \* host messages queued at once
MaxCallsCycle == 17    \* handle calls in SpecCycle: more than one turn of the TID space
MaxRxCycle == 1        \* device writes in SpecCycle
MaxCallsBus == 1       \* handle calls in SpecBus
MaxRxBus == 1          \* device writes in SpecBus
MaxCallsWire == 1      \* handle calls in SpecWire
MaxRxWire == 2         \* device writes in SpecWire
MaxCallsClient == 1    \* handle calls in SpecClient
MaxRxClient == 1       \* device writes in SpecClient
MaxCallsSub == 2       \* handle calls in SpecSub
MaxRxSub == 1          \* device writes in SpecSub
MaxCallsLag == 1       \* subscribe calls in SpecLag, and requests after them
MaxPayload == 1        \* octets of a property value in SpecCodec and SpecFrame
MaxFindLen == 5        \* octets of a buffer searched in SpecFind
MaxPackedSpan == 20    \* values on each side of a length boundary in SpecPacked
MaxCommandLen == 4     \* octets of a command buffer in SpecPacked
MaxSliceLen == 5       \* octets of a slice decoded in SpecDelim
MaxStreamFrames == 2   \* frames of the stream the device sends in SpecStream
MaxCallsReply == 16    \* handle calls in SpecReply
MaxRxReply == 2        \* device writes in SpecReply
MaxCallsDrop == 2      \* handle calls in SpecDrop
MaxRxDrop == 1         \* device writes in SpecDrop
MaxCallsOrder == 3     \* handle calls in SpecOrder
MaxRxOrder == 2        \* device writes in SpecOrder
MaxCallsLive == 3      \* handle calls in SpecLive
MaxCallsIid == 16      \* handle calls in SpecIid
MaxBurst == 17         \* frames in one device write in SpecLag: more than a bus retains

----------------------------------------------------------------------------
(* Helpers for bytes and 0-based slices *)

Min(S) == CHOOSE x \in S : \A y \in S : x <= y

At(bytes, i) == bytes[i + 1]

\* bytes[from..to) with 0-based offsets
Slice(bytes, from, to) == [k \in 1..(to - from) |-> bytes[from + k]]

\* The one element of a singleton set.  Binding a computed value through
\* {f(x) : x \in {e}} evaluates e once, however often f uses x.
The(S) == CHOOSE r \in S : TRUE

\* Bit k of a and of b differ, as the value of that bit (p = 2^k)
XorBit(a, b, p) == ((((a \div p) % 2) + ((b \div p) % 2)) % 2) * p

OrBit(a, b, p) == (IF ((a \div p) % 2) + ((b \div p) % 2) > 0 THEN 1 ELSE 0) * p

\* a ^ b on 16-bit values
BitXor(a, b) ==
    The({ XorBit(x, y, 1) + XorBit(x, y, 2) + XorBit(x, y, 4) + XorBit(x, y, 8)
          + XorBit(x, y, 16) + XorBit(x, y, 32) + XorBit(x, y, 64) + XorBit(x, y, 128)
          + XorBit(x, y, 256) + XorBit(x, y, 512) + XorBit(x, y, 1024)
          + XorBit(x, y, 2048) + XorBit(x, y, 4096) + XorBit(x, y, 8192)
          + XorBit(x, y, 16384) + XorBit(x, y, 32768) : x \in {a}, y \in {b} })

\* a | b on 8-bit values
BitOr(a, b) ==
    The({ OrBit(x, y, 1) + OrBit(x, y, 2) + OrBit(x, y, 4) + OrBit(x, y, 8)
          + OrBit(x, y, 16) + OrBit(x, y, 32) + OrBit(x, y, 64) + OrBit(x, y, 128)
          : x \in {a}, y \in {b} })

Ok(v) == [tag |-> "Ok", val |-> v, err |-> "", arg |-> 0]
Err(e, a) == [tag |-> "Err", val |-> <<>>, err |-> e, arg |-> a]
Panic == [tag |-> "Panic", val |-> <<>>, err |-> "panic", arg |-> 0]

----------------------------------------------------------------------------
(* codec/datatype/packed_u32.rs *)

\* count_bytes taking the first octet for the whole packed integer
count_bytes_first_octet(value) == IF Len(value) = 0 THEN 0 ELSE 1

count_bytes(value) ==
    LET term == {i \in 1..Len(value) : value[i] < 128}
    IN  IF term = {} THEN 0 ELSE Min(term)

RECURSIVE DecodeSum(_, _)
DecodeSum(bytes, n) ==
    IF n = 0 THEN 0
    ELSE DecodeSum(bytes, n - 1) + (bytes[n] % 128) * (128 ^ (n - 1))

\* <<value, count>>
PackedU32_decode(bytes) ==
    LET n    == IF Len(bytes) < 3 THEN Len(bytes) ELSE 3
        term == {i \in 1..n : bytes[i] < 128}
        last == IF term = {} THEN n ELSE Min(term)
    IN  <<DecodeSum(bytes, last), IF term = {} THEN 0 ELSE Min(term)>>

\* <<array of 3 octets, count>>
PackedU32_encode(value) ==
    LET v0 == value
        v1 == v0 \div 128
        v2 == v1 \div 128
        v3 == v2 \div 128
        b(v, rest) == (v % 128) + (IF rest # 0 THEN 128 ELSE 0)
        c(rest) == IF rest # 0 THEN 1 ELSE 0
    IN  << <<b(v0, v1), b(v1, v2), b(v2, v3)>>, 1 + c(v1) + c(v2) + c(v3) >>

\* packed_len with the two-octet range one value too long
packed_len_16384_in_two(value) ==
    IF value <= 127 THEN 1 ELSE IF value <= 16383 + 1 THEN 2 ELSE 3

packed_len(value) ==
    IF value <= 127 THEN 1 ELSE IF value <= 16383 THEN 2 ELSE 3

write_to_buffer(value) ==
    LET e == PackedU32_encode(value) IN Slice(e[1], 0, e[2])

----------------------------------------------------------------------------
(* codec/property.rs, codec/datatype/status.rs *)

\* TryFrom<&PackedByteSlice> for PackedU32: copy_from_slice panics unless the
\* slice it is given has the three octets of the array
PackedU32_try_from(bytes) ==
    LET count == count_bytes(bytes)
    IN  IF count > 3 THEN Err("PackedU32ByteCount", 0)
        ELSE IF count # 3 THEN Panic
        ELSE Ok(Slice(bytes, 0, count))

Property_id(prop) ==
    CASE prop = "LastStatus" -> 0
      [] prop = "ProtocolVersion" -> 1
      [] prop = "NcpVersion" -> 2
      [] prop = "InterfaceType" -> 3
      [] prop = "StreamDebug" -> 112
      [] prop = "StreamNet" -> 113
      [] prop = "StreamNetInsecure" -> 115
      [] prop = "StreamLog" -> 116

Property_try_from_u32(id) ==
    CASE id = 0 -> Ok("LastStatus")
      [] id = 1 -> Ok("ProtocolVersion")
      [] id = 2 -> Ok("NcpVersion")
      [] id = 3 -> Ok("InterfaceType")
      [] id = 112 -> Ok("StreamDebug")
      [] id = 113 -> Ok("StreamNet")
      [] id = 115 -> Ok("StreamNetInsecure")
      [] id = 116 -> Ok("StreamLog")
      [] OTHER -> Err("Property", id)

Property_try_from(bytes) ==
    LET len == count_bytes(bytes)
    IN  Property_try_from_u32(PackedU32_decode(Slice(bytes, 0, len))[1])

\* Property_packed_len taking the property id for no octet
Property_packed_len_zero(prop) == packed_len(Property_id(prop)) - 1

Property_packed_len(prop) == packed_len(Property_id(prop))

\* ResetReason::try_from accepting 111 as well
IsResetReason_from_111(value) == value \in 111..120

IsResetReason(value) == value \in 112..120

----------------------------------------------------------------------------
(* codec/command.rs *)

Noop == [cmd |-> "Noop", prop |-> "", value |-> <<>>]
Reset == [cmd |-> "Reset", prop |-> "", value |-> <<>>]
PropertyValueGet(p) == [cmd |-> "PropertyValueGet", prop |-> p, value |-> <<>>]
PropertyValueIs(p, v) == [cmd |-> "PropertyValueIs", prop |-> p, value |-> v]

Command_id(c) ==
    CASE c.cmd = "Noop" -> 0
      [] c.cmd = "Reset" -> 1
      [] c.cmd = "PropertyValueGet" -> 2
      [] c.cmd = "PropertyValueIs" -> 6

Command_encode(c) ==
    IF c.cmd \in {"Noop", "Reset"}
    THEN write_to_buffer(Command_id(c))
    ELSE write_to_buffer(Command_id(c)) \o write_to_buffer(Property_id(c.prop)) \o c.value

Command_decode(buffer) ==
    IF Len(buffer) = 0 THEN Err("PacketLength", 0)
    ELSE
      LET cmd_id_len == count_bytes(buffer)
          id == PackedU32_decode(Slice(buffer, 0, cmd_id_len))[1]
          payload == Slice(buffer, cmd_id_len, Len(buffer))
          prop == Property_try_from(payload)
      IN  CASE id = 0 -> Ok(Noop)
            [] id = 1 -> Ok(Reset)
            [] id = 2 -> IF prop.tag = "Err" THEN prop
                         ELSE Ok(PropertyValueGet(prop.val))
            [] id = 6 -> IF prop.tag = "Err" THEN prop
                         ELSE IF Property_packed_len(prop.val) > Len(payload) THEN Panic
                         ELSE Ok(PropertyValueIs(prop.val,
                                    Slice(payload, Property_packed_len(prop.val), Len(payload))))
            [] OTHER -> Err("Command", id)

----------------------------------------------------------------------------
(* codec/frame/spinel.rs *)

HEADER_FLAG == 2

Header_new(i, t) == [flag |-> HEADER_FLAG, iid |-> i, tid |-> t]

\* Header_to_u8 with the IID shifted by one bit too many
Header_to_u8_iid_shift_5(h) ==
    BitOr(BitOr((h.flag * 64) % 256, (h.iid * 32) % 256), h.tid)

\* u8 arithmetic: each shift drops the bits that leave the octet
Header_to_u8(h) ==
    BitOr(BitOr((h.flag * 64) % 256, (h.iid * 16) % 256), h.tid)

Header_try_from(value) ==
    LET flag == value \div 64
        i    == (value \div 16) % 4
        t    == value % 16
    IN  IF flag # HEADER_FLAG THEN Err("Header", value)
        ELSE Ok([flag |-> flag, iid |-> i, tid |-> t])

Frame_new(h, c) == [header |-> h, command |-> c]

Frame_encode(f) == <<Header_to_u8(f.header)>> \o Command_encode(f.command)

Frame_decode(buffer) ==
    IF Len(buffer) < 2 THEN Err("PacketLength", Len(buffer))
    ELSE
      LET h == Header_try_from(At(buffer, 0))
          c == Command_decode(Slice(buffer, 1, Len(buffer)))
      IN  IF h.tag # "Ok" THEN h
          ELSE IF c.tag # "Ok" THEN c
          ELSE Ok(Frame_new(h.val, c.val))

----------------------------------------------------------------------------
(* codec/frame/hdlc.rs *)

\* The escape octet taken for the delimiter
FRAME_DELIMITER_FLAG_7D == 126 - 1

FRAME_DELIMITER_FLAG == 126

ESCAPE_BYTE_FLAG == 125
XON == 17
XOFF == 19
VENDOR_SPECIFIC == 248

requires_escape(byte) ==
    \/ byte = FRAME_DELIMITER_FLAG
    \/ byte = ESCAPE_BYTE_FLAG
    \/ byte = XON
    \/ byte = XOFF
    \/ byte = VENDOR_SPECIFIC

\* CRC-16/X.25 (crc16::X_25): reflected polynomial 0x8408, init and xorout 0xFFFF
\* One bit of the reflected CRC
CrcBit(c) ==
    The({ IF x % 2 = 1 THEN BitXor(x \div 2, 33800) ELSE x \div 2 : x \in {c} })

\* The eight bits of one octet
CrcOctet(c) == CrcBit(CrcBit(CrcBit(CrcBit(CrcBit(CrcBit(CrcBit(CrcBit(c))))))))

RECURSIVE CrcUpdate(_, _, _)
CrcUpdate(c, bytes, i) ==
    IF i > Len(bytes) THEN c
    ELSE The({ CrcUpdate(BitXor(CrcOctet(BitXor(x % 256, bytes[i])), x \div 256),
                         bytes, i + 1) : x \in {c} })

Crc16X25(bytes) == BitXor(CrcUpdate(65535, bytes, 1), 65535)

\* Positions (0-based) of the frame delimiter
DelimiterPositions(bytes) ==
    {i \in 0..(Len(bytes) - 1) : At(bytes, i) = FRAME_DELIMITER_FLAG}

\* Option<usize>: <<pos>> or <<>>
find_frame_delimiter(bytes) ==
    IF DelimiterPositions(bytes) = {} THEN <<>>
    ELSE <<Min(DelimiterPositions(bytes))>>

RECURSIVE FindFrameLoop_keeps_empty(_, _, _)
\* FindFrameLoop taking an adjacent delimiter for the end of a frame
FindFrameLoop_keeps_empty(bytes, first, left) ==
    IF left = 0 THEN <<>>
    ELSE
      LET split_pos == first + 1
          found == find_frame_delimiter(Slice(bytes, split_pos, Len(bytes)))
      IN  IF found = <<>> THEN <<>>
          ELSE <<first, found[1] + split_pos>>

RECURSIVE FindFrameLoop(_, _, _)
FindFrameLoop(bytes, first, left) ==
    IF left = 0 THEN <<>>
    ELSE
      LET split_pos == first + 1
          found == find_frame_delimiter(Slice(bytes, split_pos, Len(bytes)))
      IN  IF found = <<>> THEN <<>>
          ELSE IF found[1] + split_pos = split_pos
               THEN FindFrameLoop(bytes, found[1] + split_pos, left - 1)
               ELSE <<first, found[1] + split_pos>>

\* Option<(usize, usize)>: <<start, end>> or <<>>
find_frame(bytes) ==
    LET first == find_frame_delimiter(bytes)
    IN  IF first = <<>> THEN <<>>
        ELSE FindFrameLoop(bytes, first[1], Len(bytes))

\* The host encoder writes the frame and its CRC as they are (no byte is escaped)
HdlcLiteFrame_encode(buffer, f) ==
    LET b1  == (buffer \o <<FRAME_DELIMITER_FLAG>>) \o Frame_encode(f)
        crc == Crc16X25(Slice(b1, 1, Len(b1)))
    IN  b1 \o <<crc % 256, crc \div 256, FRAME_DELIMITER_FLAG>>

\* The loop of decode: every byte of the escape set is dropped and arms the
\* XOR of the next byte that is not in the set
RECURSIVE Unescape(_, _, _, _)
Unescape(bytes, i, need_escape, packet) ==
    IF i > Len(bytes) THEN packet
    ELSE IF requires_escape(bytes[i]) THEN Unescape(bytes, i + 1, TRUE, packet)
    ELSE The({ Unescape(bytes, i + 1, FALSE, p) :
               p \in {Append(packet, IF need_escape THEN BitXor(bytes[i], 32)
                                     ELSE bytes[i])} })

HdlcLiteFrame_decode(bytes) ==
    IF Len(bytes) > 0 /\ At(bytes, 0) # FRAME_DELIMITER_FLAG
    THEN Err("HdlcStartDelimiter", At(bytes, 0))
    ELSE IF Len(bytes) < 1 THEN Panic                \* split_off(1) past the end
    ELSE
      LET rest == Slice(bytes, 1, Len(bytes))
          packet == Unescape(rest, 1, FALSE, <<>>)
          pkt_len == Len(packet)
      IN  IF Len(rest) > 0 /\ rest[Len(rest)] # FRAME_DELIMITER_FLAG
          THEN Err("HdlcEndDelimiter", rest[Len(rest)])
          ELSE IF pkt_len < 2 THEN Panic             \* pkt_len - 2 on usize, split_off past the end
          ELSE
            LET body == Slice(packet, 0, pkt_len - 2)
                pkt_crc == packet[pkt_len - 1] + 256 * packet[pkt_len]
                calculated_crc == Crc16X25(body)
            IN  IF calculated_crc # pkt_crc THEN Err("HdlcChecksum", calculated_crc)
                ELSE Frame_decode(body)

----------------------------------------------------------------------------
(* codec/hdlc.rs *)

\* [res |-> Ok(<<frame>>) | Ok(<<>>) (None) | Err | Panic, src |-> the buffer left]
HdlcCodec_decode(src) ==
    IF Len(src) = 0 THEN [res |-> Ok(<<>>), src |-> src]
    ELSE
      LET b == find_frame(src)
      IN  IF b = <<>> THEN [res |-> Ok(<<>>), src |-> src]
          ELSE
            LET frame == Slice(src, b[1], b[2] + 1)
                left  == Slice(src, b[2] + 1, Len(src))
                d     == HdlcLiteFrame_decode(frame)
            IN  [res |-> IF d.tag = "Ok" THEN Ok(<<d.val>>) ELSE d, src |-> left]

HdlcCodec_encode(item, src) == HdlcLiteFrame_encode(src, item)

----------------------------------------------------------------------------
(* connection/posix.rs: the actor's pure steps *)

TID_START == 1
TID_MAX == 15

Buses == {"Reset", "Debug", "Net", "NetInsecure", "Log"}

\* Host messages that carry a request, and the handle call that sends each
RequestKinds == {"Noop", "Reset", "LastStatus", "RadioFirmwareVersion"}

\* process_handle_msg: the command sent for a host message
CommandOf(kind) ==
    CASE kind = "Noop" -> Noop
      [] kind = "Reset" -> Reset
      [] kind = "LastStatus" -> PropertyValueGet("LastStatus")
      [] kind = "RadioFirmwareVersion" -> PropertyValueGet("NcpVersion")

\* send_reset drops its receiver on return; send_request awaits the reply
CallerAwaits(kind) == kind # "Reset"

\* increment_tid wrapping to the reserved TID 0 instead of TID_START
increment_tid_wraps_to_zero(t) == (t + 1) % (TID_MAX + 1)

increment_tid(t) == IF t = TID_MAX THEN TID_START ELSE t + 1

\* reset_tid without lut.clear()
reset_tid_keeps_lut(t, l) == <<TID_START, l>>

\* reset_tid: <<tid, lut>>
reset_tid(t, l) == <<TID_START, <<>>>>

\* lut maps a TID to the request whose one-shot sender is stored under it
\* The map after lut.insert(t, kind)
LutInsert(l, t, kind) == [k \in (DOMAIN l) \cup {t} |-> IF k = t THEN kind ELSE l[k]]

\* An insert that kept the displaced sender alive
LutDisplaced_kept(l, t) == {}

\* The TIDs whose sender lut.insert(t, _) returns and drops
LutDisplaced(l, t) == IF t \in DOMAIN l THEN {t} ELSE {}

\* A lookup with lut.get in place of lut.remove
LutRemove_get(l, t) == l

\* The map after lut.remove(t)
LutRemove(l, t) == [k \in (DOMAIN l) \ {t} |-> l[k]]

\* The TIDs the map holds a sender for
LutSenders(l) == DOMAIN l

\* The tid == 0 match with the Net and NetInsecure arms exchanged
BroadcastBus_net_swapped(command) ==
    IF command.cmd # "PropertyValueIs" THEN ""
    ELSE CASE command.prop = "LastStatus" ->
                IF IsResetReason(PackedU32_decode(command.value)[1]) THEN "Reset" ELSE ""
           [] command.prop = "StreamDebug" -> "Debug"
           [] command.prop = "StreamNet" -> "NetInsecure"
           [] command.prop = "StreamNetInsecure" -> "Net"
           [] command.prop = "StreamLog" -> "Log"
           [] OTHER -> ""

\* run, tid == 0: the bus the frame is published on ("" when it is logged and dropped)
BroadcastBus(command) ==
    IF command.cmd # "PropertyValueIs" THEN ""
    ELSE CASE command.prop = "LastStatus" ->
                IF IsResetReason(PackedU32_decode(command.value)[1]) THEN "Reset" ELSE ""
           [] command.prop = "StreamDebug" -> "Debug"
           [] command.prop = "StreamNet" -> "Net"
           [] command.prop = "StreamNetInsecure" -> "NetInsecure"
           [] command.prop = "StreamLog" -> "Log"
           [] OTHER -> ""

\* A dispatch that only logs the frames with a TID other than 0
Dispatch_ignores_responses(frame, t, l) ==
    IF frame.header.tid = 0
    THEN LET b == BroadcastBus(frame.command)
         IN  IF b = "Reset"
             THEN [tid |-> reset_tid(t, l)[1], lut |-> reset_tid(t, l)[2], pub |-> b,
                   sink |-> <<>>, dropped |-> LutSenders(l)]
             ELSE [tid |-> t, lut |-> l, pub |-> b, sink |-> <<>>, dropped |-> {}]
    ELSE [tid |-> t, lut |-> l, pub |-> "", sink |-> <<>>, dropped |-> {}]

\* run, Ok(frame): what the dispatch of one decoded frame does.
\*   tid, lut : the actor's fields afterwards
\*   pub      : the bus the frame is sent on, or ""
\*   sink     : <<t>> when the frame is sent on the one-shot stored under t, else <<>>
\*   dropped  : the TIDs whose one-shot sender is dropped without a frame
Dispatch(frame, t, l) ==
    IF frame.header.tid = 0
    THEN LET b == BroadcastBus(frame.command)
         IN  IF b = "Reset"
             THEN [tid |-> reset_tid(t, l)[1], lut |-> reset_tid(t, l)[2], pub |-> b,
                   sink |-> <<>>, dropped |-> LutSenders(l)]
             ELSE [tid |-> t, lut |-> l, pub |-> b, sink |-> <<>>, dropped |-> {}]
    ELSE IF frame.header.tid \in DOMAIN l
         THEN [tid |-> t, lut |-> LutRemove(l, frame.header.tid), pub |-> "",
               sink |-> <<frame.header.tid>>, dropped |-> {}]
         ELSE [tid |-> t, lut |-> l, pub |-> "", sink |-> <<>>, dropped |-> {}]

\* send_request: the request frame built from the actor's iid and tid
RequestFrame(i, t, kind) == Frame_new(Header_new(i, t), CommandOf(kind))

\* send_request with increment_tid() ahead of lut.insert()
AfterSend_increment_first(ok, t, l, kind) ==
    IF ok
    THEN [tid |-> increment_tid(t), lut |-> LutInsert(l, increment_tid(t), kind),
          reply |-> "Receiver", dropped |-> LutDisplaced(l, increment_tid(t))]
    ELSE [tid |-> t, lut |-> l, reply |-> "Io", dropped |-> {}]

\* send_request refusing a request while every TID has a pending entry
AfterSend_refuses_when_full(ok, t, l, kind) ==
    IF ok /\ Cardinality(DOMAIN l) < TID_MAX
    THEN [tid |-> increment_tid(t), lut |-> LutInsert(l, t, kind),
          reply |-> "Receiver", dropped |-> LutDisplaced(l, t)]
    ELSE [tid |-> t, lut |-> l, reply |-> "Io", dropped |-> {}]

\* send_request after send_frame returned.
\*   reply   : what is sent on the reply one-shot
\*   dropped : the TIDs whose one-shot sender is dropped
AfterSend(ok, t, l, kind) ==
    IF ok
    THEN [tid |-> increment_tid(t), lut |-> LutInsert(l, t, kind),
          reply |-> "Receiver", dropped |-> LutDisplaced(l, t)]
    ELSE [tid |-> t, lut |-> l, reply |-> "Io", dropped |-> {}]

----------------------------------------------------------------------------
(* connection/posix.rs: the handle's side *)

STATUS_OK == 0
STATUS_RESPONSE_TIMEOUT == 24

\* TryFrom<u8> for Status: <<status>> for Ok, <<>> for Err(())
Status_try_from(value) ==
    IF value \in STATUS_OK..STATUS_RESPONSE_TIMEOUT THEN <<value>> ELSE <<>>

\* Frame::last_status: Ok(<<status>>) for Some, Ok(<<>>) for None; value[0] and
\* unwrap() panic in the caller's task
Frame_last_status(f) ==
    IF f.command.cmd # "PropertyValueIs" THEN Ok(<<>>)
    ELSE IF f.command.prop # "LastStatus" THEN Ok(<<>>)
    ELSE IF Len(f.command.value) = 0 THEN Panic
    ELSE IF Status_try_from(f.command.value[1]) = <<>> THEN Panic
    ELSE Ok(Status_try_from(f.command.value[1]))

\* What a handle call has not returned yet
NoResult == [tag |-> "None", val |-> <<>>, err |-> "", arg |-> 0]

\* noop() once send_request returned the response
noop(response) ==
    LET s == Frame_last_status(response)
    IN  IF s.tag = "Panic" THEN Panic
        ELSE IF s.val = <<>> THEN Err("UnexpectedResponse", response)
        ELSE IF s.val[1] = STATUS_OK THEN Ok(<<>>)
        ELSE Err("Status", s.val[1])

\* last_status() once send_request returned the response: the response is dropped
last_status(response) == Ok(<<>>)

\* controller_version with any PropertyValueIs accepted
controller_version_any_property(response) ==
    IF response.command.cmd = "PropertyValueIs"
    THEN Ok(response.command.value)
    ELSE Err("UnexpectedResponse", response)

\* controller_version() once send_request returned the response
controller_version(response) ==
    IF response.command.cmd = "PropertyValueIs" /\ response.command.prop = "NcpVersion"
    THEN Ok(response.command.value)
    ELSE Err("UnexpectedResponse", response)

\* The value the call that sent a request of this kind returns for a response
HandleResult(kind, response) ==
    CASE kind = "Noop" -> noop(response)
      [] kind = "LastStatus" -> last_status(response)
      [] kind = "RadioFirmwareVersion" -> controller_version(response)
      [] OTHER -> NoResult

\* Host messages that subscribe to a bus
SubscribeKinds ==
    {"SubscribeResetMessage", "SubscribeDebugBroadcast", "SubscribeNetBroadcast",
     "SubscribeNetInsecureBroadcast", "SubscribeLogBroadcast"}

\* process_handle_msg: the bus a subscribe message names
SubscribeBus(kind) ==
    CASE kind = "SubscribeResetMessage" -> "Reset"
      [] kind = "SubscribeDebugBroadcast" -> "Debug"
      [] kind = "SubscribeNetBroadcast" -> "Net"
      [] kind = "SubscribeNetInsecureBroadcast" -> "NetInsecure"
      [] kind = "SubscribeLogBroadcast" -> "Log"

\* Half the capacity the channels are created with
BROADCAST_CAPACITY_HALVED == 16 \div 2

DEFAULT_BROADCAST_CAPACITY == 16

\* tokio::sync::broadcast::Receiver::try_recv for a receiver whose next frame
\* is the next-th one sent on a channel that has carried sent so far:
\* the channel keeps the last DEFAULT_BROADCAST_CAPACITY frames
BroadcastRecv(sent, next) ==
    IF next > Len(sent) THEN [tag |-> "Empty", frame |-> <<>>, n |-> 0, next |-> next]
    ELSE IF Len(sent) - next + 1 > DEFAULT_BROADCAST_CAPACITY
         THEN [tag |-> "Lagged", frame |-> <<>>,
               n |-> (Len(sent) - DEFAULT_BROADCAST_CAPACITY + 1) - next,
               next |-> Len(sent) - DEFAULT_BROADCAST_CAPACITY + 1]
         ELSE [tag |-> "Frame", frame |-> <<sent[next]>>, n |-> 0, next |-> next + 1]

----------------------------------------------------------------------------
(* What the device writes on the serial line, one chunk per write *)

RespOkTid1 == <<126, 129, 6, 0, 0, 210, 27, 126>>         \* tid 1, Is(LastStatus, [0])
RespOkTid2 == <<126, 130, 6, 0, 0, 31, 62, 126>>          \* tid 2, Is(LastStatus, [0])
ResetSoftware == <<126, 128, 6, 0, 114, 252, 87, 126>>    \* tid 0, Is(LastStatus, [114])
StatusTid0 == <<126, 128, 6, 0, 0, 105, 7, 126>>          \* tid 0, Is(LastStatus, [0])
Status111Tid0 == <<126, 128, 6, 0, 111, 152, 156, 126>>   \* tid 0, Is(LastStatus, [111])
ResetPowerOn == <<126, 128, 6, 0, 112, 238, 116, 126>>    \* tid 0, Is(LastStatus, [112])
ResetWatchdog == <<126, 128, 6, 0, 120, 166, 125, 216, 126>> \* tid 0, Is(LastStatus, [120]), CRC byte F8 escaped
Status121Tid0 == <<126, 128, 6, 0, 121, 47, 233, 126>>    \* tid 0, Is(LastStatus, [121])
DebugTid0 == <<126, 128, 6, 112, 65, 32, 164, 126>>       \* tid 0, Is(Stream Debug, "A")
NetTid0 == <<126, 128, 6, 113, 65, 125, 216, 189, 126>>   \* tid 0, Is(Stream Net, "A"), CRC byte F8 escaped
NetInsecureTid0 == <<126, 128, 6, 115, 65, 72, 142, 126>> \* tid 0, Is(Stream NetInsecure, "A")
LogTid0 == <<126, 128, 6, 116, 65, 64, 195, 126>>         \* tid 0, Is(Stream Log, "A")
NoopTid0 == <<126, 128, 0, 139, 131, 126>>                \* tid 0, Noop
BadCrc == <<126, 129, 0, 83, 0, 126>>                     \* Noop tid 1 with a corrupted CRC
BadHeader == <<126, 1, 0, 159, 22, 126>>                  \* header flag bits 00
UnknownCommand == <<126, 128, 5, 38, 212, 126>>           \* command id 5
UnknownProperty == <<126, 128, 6, 5, 65, 92, 42, 126>>    \* Is(property 5, "A")
ShortFrame == <<126, 1, 126>>                             \* one byte between the delimiters
IsNoProperty == <<126, 128, 6, 189, 230, 126>>            \* PropertyValueIs without property id
RespFailureTid1 == <<126, 129, 6, 0, 1, 91, 10, 126>>     \* tid 1, Is(LastStatus, [1])
RespStatus25Tid1 == <<126, 129, 6, 0, 25, 146, 150, 126>> \* tid 1, Is(LastStatus, [25])
RespResetReasonTid1 == <<126, 129, 6, 0, 114, 71, 75, 126>> \* tid 1, Is(LastStatus, [114])
RespEmptyStatusTid1 == <<126, 129, 6, 0, 44, 196, 126>>   \* tid 1, Is(LastStatus, [])
RespVersionTid1 == <<126, 129, 6, 2, 65, 239, 123, 126>>  \* tid 1, Is(NcpVersion, "A")
RespNoopTid1 == <<126, 129, 0, 83, 154, 126>>             \* tid 1, Noop
RespDebugTid1 == <<126, 129, 6, 112, 65, 155, 184, 126>>  \* tid 1, Is(Stream Debug, "A")

WellFormedChunks ==
    {RespOkTid1, RespOkTid2, ResetSoftware, StatusTid0, Status111Tid0, ResetPowerOn,
     ResetWatchdog, Status121Tid0, DebugTid0, NetTid0, NetInsecureTid0, LogTid0,
     NoopTid0}

DecodeErrorChunks == {BadCrc, BadHeader, UnknownCommand, UnknownProperty}

PanicChunks == {ShortFrame, IsNoProperty}

Chunks == WellFormedChunks \cup DecodeErrorChunks \cup PanicChunks

\* The chunks each specification lets the device write
SpecChunks == {RespOkTid1, RespOkTid2, ResetSoftware, DebugTid0, BadCrc, ShortFrame}

CycleChunks == {RespOkTid1, RespOkTid2, ResetSoftware}

BusChunks == {ResetSoftware, StatusTid0, Status111Tid0, ResetPowerOn, ResetWatchdog,
              Status121Tid0, DebugTid0, NetTid0, NetInsecureTid0, LogTid0, NoopTid0}

WireChunks == DecodeErrorChunks \cup PanicChunks \cup {RespOkTid1, DebugTid0}

\* Responses of every shape to the request sent under TID 1
ClientChunks ==
    {RespOkTid1, RespFailureTid1, RespStatus25Tid1, RespResetReasonTid1,
     RespEmptyStatusTid1, RespVersionTid1, RespNoopTid1, RespDebugTid1}

----------------------------------------------------------------------------
(* State machine *)

NoEv == [kind |-> "init", cmd |-> "", frame |-> <<>>, pub |-> "", sink |-> <<>>,
         done |-> {}, caller |-> "", result |-> NoResult, n |-> 0]

NoCodec == [stage |-> "idle", frame |-> <<>>, bytes |-> <<>>, flipped |-> FALSE,
            result |-> NoResult]

\* The device before the host has sent anything
\*   held  : the header of the received request the device has yet to answer
\*   later : a request has arrived after the held one under the same TID
\*   reply : the TID of the request answered by the last response written
\*           (0: none), and whether a request has arrived after that one under
\*           the same TID
NoDevice == [held |-> <<>>, later |-> FALSE, reply |-> [tid |-> 0, later |-> FALSE]]

\* The actor and its handle after new_from_serial(_, _, iid) with iid in iids
InitActor(iids) ==
    /\ actor = "running"
    /\ iid \in iids
    /\ tid = TID_START
    /\ lut = <<>>
    /\ msg = <<>>
    /\ handles = 1
    /\ calls = 0
    /\ awaiting = [t \in 0..TID_MAX |-> 0]
    /\ io = <<>>
    /\ rbuf = <<>>
    /\ is_readable = FALSE
    /\ has_errored = FALSE
    /\ streamOff = FALSE
    /\ bus = [b \in Buses |-> <<>>]
    /\ rxCount = 0
    /\ lastTx = 0
    /\ ev = NoEv
    /\ subs = <<>>
    /\ device = NoDevice

InitHost == InitActor({0, 1})

Init == InitHost /\ codec = NoCodec

\* The TIDs some caller awaits a response under
Awaited(a) == {t \in DOMAIN a : a[t] > 0}

\* awaiting once the one-shot senders stored under the TIDs in S are dropped:
\* their receivers resolve with RecvError
Fail(a, S) == [t \in DOMAIN a |-> IF t \in S THEN 0 ELSE a[t]]

\* awaiting once a frame is sent on the one-shots stored under the TIDs in S
Complete(a, S) == [t \in DOMAIN a |-> IF t \in S /\ a[t] > 0 THEN a[t] - 1 ELSE a[t]]

\* What the callers awaiting under the TIDs in S observe when the sender is dropped
Closed(a, S) == {<<t, "HostConnectionRecv">> : t \in S \cap Awaited(a)}

\* A handle call: noop(), reset(), last_status(), controller_version() or
\* subscribe_*() sends its host message on the unbounded channel.  reset()
\* returns Ok once the message is queued; the others wait for the actor's reply
\* (live: the caller still holds the receiver of the reply one-shot).
ClientCall(kind, maxCalls) ==
    /\ handles > 0
    /\ calls < maxCalls
    /\ Len(msg) < MaxQueue
    /\ calls' = calls + 1
    /\ IF actor # "panicked"
       THEN /\ msg' = Append(msg, [kind |-> kind, live |-> CallerAwaits(kind)])
            /\ ev' = [NoEv EXCEPT !.kind = "call", !.cmd = kind,
                        !.caller = IF CallerAwaits(kind) THEN "" ELSE "Ok"]
       ELSE /\ msg' = msg
            /\ ev' = [NoEv EXCEPT !.kind = "call", !.cmd = kind,
                        !.caller = IF kind \in SubscribeKinds THEN "HostConnectionRecv"
                                   ELSE "HostConnectionSend"]
    /\ UNCHANGED <<device, subs, codec, actor, iid, tid, lut, handles, awaiting, io, rbuf, is_readable,
                   has_errored, streamOff, bus, rxCount, lastTx>>

\* The last handle is dropped
DropHandle ==
    /\ handles > 0
    /\ handles' = handles - 1
    /\ ev' = [NoEv EXCEPT !.kind = "drop"]
    /\ UNCHANGED <<device, subs, codec, actor, iid, tid, lut, msg, calls, awaiting, io, rbuf, is_readable,
                   has_errored, streamOff, bus, rxCount, lastTx>>

\* select!, msg branch: process_handle_msg and send_request for the head of the
\* queue; ok is the result of the transport's send
ProcessMsg(ok) ==
    /\ actor = "running"
    /\ msg # <<>>
    /\ Head(msg).kind \in RequestKinds
    /\ LET kind == Head(msg).kind
           f == RequestFrame(iid, tid, kind)
           a == AfterSend(ok, tid, lut, kind)
           waits == Head(msg).live
       IN  /\ tid' = a.tid
           /\ lut' = a.lut
           /\ awaiting' =
                LET kept == Fail(awaiting, a.dropped)
                IN  IF a.reply = "Receiver" /\ waits
                    THEN [kept EXCEPT ![f.header.tid] = @ + 1]
                    ELSE kept
           /\ lastTx' = IF ok THEN f.header.tid ELSE lastTx
           /\ ev' = [NoEv EXCEPT !.kind = IF ok THEN "tx" ELSE "txfail",
                       !.cmd = kind, !.frame = <<f>>,
                       !.caller = IF waits THEN a.reply ELSE "Ok",
                       !.done = Closed(awaiting, a.dropped)]
    /\ msg' = Tail(msg)
    /\ streamOff' = FALSE
    /\ UNCHANGED <<device, subs, codec, actor, iid, handles, calls, io, rbuf, is_readable, has_errored,
                   bus, rxCount>>

\* The device writes one chunk
DeviceWrite(chunk, maxRx) ==
    /\ rxCount < maxRx
    /\ rxCount' = rxCount + 1
    /\ io' = io \o chunk
    /\ ev' = [NoEv EXCEPT !.kind = "dev"]
    /\ UNCHANGED <<device, subs, codec, actor, iid, tid, lut, msg, handles, calls, awaiting, rbuf,
                   is_readable, has_errored, streamOff, bus, lastTx>>

\* The task unwinds: its fields are dropped (the queue with the reply senders in
\* it, the one-shot senders in lut)
ActorPanics ==
    /\ actor' = "panicked"
    /\ lut' = <<>>
    /\ msg' = <<>>
    /\ awaiting' = Fail(awaiting, DOMAIN awaiting)
    /\ ev' = [NoEv EXCEPT !.kind = "panic",
                !.caller = IF \E k \in DOMAIN msg : msg[k].live
                           THEN "HostConnectionRecv" ELSE "",
                !.done = Closed(awaiting, DOMAIN awaiting)]

\* select!, stream branch, Framed in reading/paused: it reads what the port holds
StreamRead ==
    /\ actor = "running"
    /\ ~streamOff /\ ~has_errored /\ ~is_readable
    /\ io # <<>>
    /\ rbuf' = rbuf \o io
    /\ io' = <<>>
    /\ is_readable' = TRUE
    /\ ev' = [NoEv EXCEPT !.kind = "read"]
    /\ UNCHANGED <<device, subs, codec, actor, iid, tid, lut, msg, handles, calls, awaiting, has_errored,
                   streamOff, bus, rxCount, lastTx>>

\* select!, stream branch, Framed in framing: the decoder panics
StreamDecodePanic ==
    /\ actor = "running"
    /\ ~streamOff /\ ~has_errored /\ is_readable
    /\ \E r \in {HdlcCodec_decode(rbuf)} :
           /\ r.res.tag = "Panic"
           /\ rbuf' = r.src
    /\ ActorPanics
    /\ UNCHANGED <<device, subs, codec, iid, tid, handles, calls, io, is_readable, has_errored,
                   streamOff, bus, rxCount, lastTx>>

\* select!, stream branch, Framed in framing: the decoder returns Err, which the
\* actor logs
StreamDecodeErr ==
    /\ actor = "running"
    /\ ~streamOff /\ ~has_errored /\ is_readable
    /\ \E r \in {HdlcCodec_decode(rbuf)} :
           /\ r.res.tag = "Err"
           /\ rbuf' = r.src
           /\ ev' = [NoEv EXCEPT !.kind = "rxerr", !.cmd = r.res.err]
    /\ has_errored' = TRUE
    /\ UNCHANGED <<device, subs, codec, actor, iid, tid, lut, msg, handles, calls, awaiting, io,
                   is_readable, streamOff, bus, rxCount, lastTx>>

\* select!, stream branch, Framed in framing: the buffer holds no complete frame
StreamDecodeNone ==
    /\ actor = "running"
    /\ ~streamOff /\ ~has_errored /\ is_readable
    /\ HdlcCodec_decode(rbuf).res = Ok(<<>>)
    /\ is_readable' = FALSE
    /\ ev' = [NoEv EXCEPT !.kind = "rxnone"]
    /\ UNCHANGED <<device, subs, codec, actor, iid, tid, lut, msg, handles, calls, awaiting, io,
                   rbuf, has_errored, streamOff, bus, rxCount, lastTx>>

\* select!, stream branch, Framed in framing: the decoder yields a frame and the
\* actor dispatches it
StreamDecodeFrame ==
    /\ actor = "running"
    /\ ~streamOff /\ ~has_errored /\ is_readable
    /\ \E r \in {HdlcCodec_decode(rbuf)} :
           /\ r.res.tag = "Ok"
           /\ r.res.val # <<>>
           /\ LET f == r.res.val[1]
                  d == Dispatch(f, tid, lut)
                  got == {d.sink[k] : k \in DOMAIN d.sink} \cap Awaited(awaiting)
              IN  /\ rbuf' = r.src
                  /\ tid' = d.tid
                  /\ lut' = d.lut
                  /\ bus' = IF d.pub = "" THEN bus
                            ELSE [bus EXCEPT ![d.pub] = Append(@, f)]
                  /\ awaiting' = Fail(Complete(awaiting, got), d.dropped)
                  /\ lastTx' = IF d.pub = "Reset" THEN 0 ELSE lastTx
                  /\ ev' = [NoEv EXCEPT !.kind = "rx", !.frame = <<f>>, !.pub = d.pub,
                              !.cmd = IF got = {} THEN "" ELSE lut[f.header.tid],
                              !.sink = d.sink,
                              !.result = IF got = {} THEN NoResult
                                         ELSE HandleResult(lut[f.header.tid], f),
                              !.done = {<<t, "Frame">> : t \in got}
                                       \cup Closed(awaiting, d.dropped)]
    /\ UNCHANGED <<device, subs, codec, actor, iid, msg, handles, calls, io, is_readable,
                   has_errored, streamOff, rxCount>>

\* select!, stream branch, Framed errored: the stream yields None once, which
\* disables the branch until the select! completes through the msg branch
StreamEnd ==
    /\ actor = "running"
    /\ ~streamOff /\ has_errored
    /\ has_errored' = FALSE
    /\ is_readable' = FALSE
    /\ streamOff' = TRUE
    /\ ev' = [NoEv EXCEPT !.kind = "end"]
    /\ UNCHANGED <<device, subs, codec, actor, iid, tid, lut, msg, handles, calls, awaiting, io, rbuf,
                   bus, rxCount, lastTx>>

\* select! with both branches disabled and no else branch
SelectPanic ==
    /\ actor = "running"
    /\ streamOff
    /\ msg = <<>> /\ handles = 0
    /\ ActorPanics
    /\ UNCHANGED <<device, subs, codec, iid, tid, handles, calls, io, rbuf, is_readable, has_errored,
                   streamOff, bus, rxCount, lastTx>>

\* ProcessSubscribe taking a TID as a request does
ProcessSubscribe_consumes_tid ==
    /\ actor = "running"
    /\ msg # <<>>
    /\ Head(msg).kind \in SubscribeKinds
    /\ subs' = IF Head(msg).live
               THEN Append(subs, [bus |-> SubscribeBus(Head(msg).kind),
                                  next |-> Len(bus[SubscribeBus(Head(msg).kind)]) + 1])
               ELSE subs
    /\ ev' = [NoEv EXCEPT !.kind = "sub", !.cmd = Head(msg).kind,
                !.pub = SubscribeBus(Head(msg).kind), !.caller = "Receiver"]
    /\ tid' = increment_tid(tid)
    /\ msg' = Tail(msg)
    /\ streamOff' = FALSE
    /\ UNCHANGED <<device, codec, actor, iid, lut, handles, calls, awaiting, io, rbuf,
                   is_readable, has_errored, bus, rxCount, lastTx>>

\* select!, msg branch: process_handle_msg for a Subscribe* message at the head
\* of the queue: the bus is subscribed to and the receiver sent as the reply
ProcessSubscribe ==
    /\ actor = "running"
    /\ msg # <<>>
    /\ Head(msg).kind \in SubscribeKinds
    /\ LET b == SubscribeBus(Head(msg).kind)
       IN  /\ subs' = IF Head(msg).live
                      THEN Append(subs, [bus |-> b, next |-> Len(bus[b]) + 1])
                      ELSE subs
           /\ ev' = [NoEv EXCEPT !.kind = "sub", !.cmd = Head(msg).kind, !.pub = b,
                       !.caller = "Receiver"]
    /\ msg' = Tail(msg)
    /\ streamOff' = FALSE
    /\ UNCHANGED <<device, codec, actor, iid, tid, lut, handles, calls, awaiting, io, rbuf,
                   is_readable, has_errored, bus, rxCount, lastTx>>

\* The future of a call whose message is still queued is dropped
CancelQueued(k) ==
    /\ k \in DOMAIN msg
    /\ msg[k].live
    /\ msg' = [msg EXCEPT ![k].live = FALSE]
    /\ ev' = [NoEv EXCEPT !.kind = "cancel", !.cmd = msg[k].kind]
    /\ UNCHANGED <<device, subs, codec, actor, iid, tid, lut, handles, calls, awaiting, io,
                   rbuf, is_readable, has_errored, streamOff, bus, rxCount, lastTx>>

\* The future of a call awaiting the response under TID t is dropped
CancelAwait(t) ==
    /\ t \in Awaited(awaiting)
    /\ awaiting' = [awaiting EXCEPT ![t] = @ - 1]
    /\ ev' = [NoEv EXCEPT !.kind = "cancel", !.sink = <<t>>]
    /\ UNCHANGED <<device, subs, codec, actor, iid, tid, lut, msg, handles, calls, io, rbuf,
                   is_readable, has_errored, streamOff, bus, rxCount, lastTx>>

\* The holder of the i-th receiver takes what the channel has for it
SubscriberRecv(i) ==
    /\ i \in DOMAIN subs
    /\ \E r \in {BroadcastRecv(bus[subs[i].bus], subs[i].next)} :
           /\ r.tag # "Empty"
           /\ subs' = [subs EXCEPT ![i].next = r.next]
           /\ ev' = [NoEv EXCEPT !.kind = "recv", !.pub = subs[i].bus, !.sink = <<i>>,
                       !.frame = r.frame, !.caller = r.tag, !.n = r.n]
    /\ UNCHANGED <<device, codec, actor, iid, tid, lut, msg, handles, calls, awaiting, io,
                   rbuf, is_readable, has_errored, streamOff, bus, rxCount, lastTx>>

\* byte with bit number bit (0..7) inverted
FlipBit(byte, bit) == BitXor(byte, 2 ^ bit)

\* HdlcLiteFrame::new(frame).encode(&mut buffer) on an empty buffer
CodecEncode ==
    /\ codec.stage = "frame"
    /\ codec' = [codec EXCEPT !.stage = "encoded",
                              !.bytes = HdlcLiteFrame_encode(<<>>, codec.frame[1])]
    /\ UNCHANGED <<device, subs, actor, iid, tid, lut, msg, handles, calls, awaiting, io, rbuf,
                   is_readable, has_errored, streamOff, bus, rxCount, lastTx, ev>>

\* The line inverts one bit between the delimiters
CodecFlip(i, bit) ==
    /\ codec.stage = "encoded"
    /\ ~codec.flipped
    /\ i \in 2..(Len(codec.bytes) - 1)
    /\ codec' = [codec EXCEPT !.flipped = TRUE,
                              !.bytes = [codec.bytes EXCEPT ![i] = FlipBit(@, bit)]]
    /\ UNCHANGED <<device, subs, actor, iid, tid, lut, msg, handles, calls, awaiting, io, rbuf,
                   is_readable, has_errored, streamOff, bus, rxCount, lastTx, ev>>

\* HdlcLiteFrame::decode(&bytes)
CodecDecode ==
    /\ codec.stage = "encoded"
    /\ codec' = [codec EXCEPT !.stage = "decoded",
                              !.result = HdlcLiteFrame_decode(codec.bytes)]
    /\ UNCHANGED <<device, subs, actor, iid, tid, lut, msg, handles, calls, awaiting, io, rbuf,
                   is_readable, has_errored, streamOff, bus, rxCount, lastTx, ev>>

\* HdlcLiteFrame::find_frame(&bytes)
FindFrame ==
    /\ codec.stage = "buffer"
    /\ codec' = [codec EXCEPT !.stage = "found", !.result = Ok(find_frame(codec.bytes))]
    /\ UNCHANGED <<device, subs, actor, iid, tid, lut, msg, handles, calls, awaiting, io, rbuf,
                   is_readable, has_errored, streamOff, bus, rxCount, lastTx, ev>>

\* Frame::encode(&mut buffer) on an empty buffer
FrameEncode ==
    /\ codec.stage = "spinel"
    /\ codec' = [codec EXCEPT !.stage = "spinel_bytes",
                              !.bytes = Frame_encode(codec.frame[1])]
    /\ UNCHANGED <<device, subs, actor, iid, tid, lut, msg, handles, calls, awaiting, io, rbuf,
                   is_readable, has_errored, streamOff, bus, rxCount, lastTx, ev>>

\* Frame::decode(&buffer)
FrameDecode ==
    /\ codec.stage = "spinel_bytes"
    /\ codec' = [codec EXCEPT !.stage = "spinel_decoded",
                              !.result = Frame_decode(codec.bytes)]
    /\ UNCHANGED <<device, subs, actor, iid, tid, lut, msg, handles, calls, awaiting, io, rbuf,
                   is_readable, has_errored, streamOff, bus, rxCount, lastTx, ev>>

\* u8::from(header)
HeaderInto ==
    /\ codec.stage = "header"
    /\ codec' = [codec EXCEPT !.stage = "octet",
                              !.bytes = <<Header_to_u8(codec.frame[1])>>]
    /\ UNCHANGED <<device, subs, actor, iid, tid, lut, msg, handles, calls, awaiting, io, rbuf,
                   is_readable, has_errored, streamOff, bus, rxCount, lastTx, ev>>

\* Header::try_from(byte)
HeaderTryFrom ==
    /\ codec.stage = "octet"
    /\ codec' = [codec EXCEPT !.stage = "header_decoded",
                              !.result = Header_try_from(codec.bytes[1])]
    /\ UNCHANGED <<device, subs, actor, iid, tid, lut, msg, handles, calls, awaiting, io, rbuf,
                   is_readable, has_errored, streamOff, bus, rxCount, lastTx, ev>>

\* PackedU32::encode(value): the count octets it reports
PackedEncode ==
    /\ codec.stage = "u32"
    /\ codec' = [codec EXCEPT !.stage = "packed",
                              !.bytes = Slice(PackedU32_encode(codec.frame[1])[1], 0,
                                              PackedU32_encode(codec.frame[1])[2])]
    /\ UNCHANGED <<device, subs, actor, iid, tid, lut, msg, handles, calls, awaiting, io, rbuf,
                   is_readable, has_errored, streamOff, bus, rxCount, lastTx, ev>>

\* PackedU32::decode(bytes)
PackedDecode ==
    /\ codec.stage = "packed"
    /\ codec' = [codec EXCEPT !.stage = "unpacked",
                              !.result = Ok(PackedU32_decode(codec.bytes))]
    /\ UNCHANGED <<device, subs, actor, iid, tid, lut, msg, handles, calls, awaiting, io, rbuf,
                   is_readable, has_errored, streamOff, bus, rxCount, lastTx, ev>>

\* PackedU32::try_from(bytes)
PackedTryFrom ==
    /\ codec.stage = "packed_slice"
    /\ codec' = [codec EXCEPT !.stage = "packed_value",
                              !.result = PackedU32_try_from(codec.bytes)]
    /\ UNCHANGED <<device, subs, actor, iid, tid, lut, msg, handles, calls, awaiting, io, rbuf,
                   is_readable, has_errored, streamOff, bus, rxCount, lastTx, ev>>

\* Command::decode(&buffer)
CommandDecode ==
    /\ codec.stage = "command_bytes"
    /\ codec' = [codec EXCEPT !.stage = "command",
                              !.result = Command_decode(codec.bytes)]
    /\ UNCHANGED <<device, subs, actor, iid, tid, lut, msg, handles, calls, awaiting, io, rbuf,
                   is_readable, has_errored, streamOff, bus, rxCount, lastTx, ev>>

\* The device's stream reaches the port n octets further
StreamFeed(n) ==
    /\ codec.stage = "stream"
    /\ n \in 1..Len(codec.bytes)
    /\ io' = io \o SubSeq(codec.bytes, 1, n)
    /\ codec' = [codec EXCEPT !.bytes = SubSeq(codec.bytes, n + 1, Len(codec.bytes))]
    /\ ev' = [NoEv EXCEPT !.kind = "dev"]
    /\ UNCHANGED <<device, subs, actor, iid, tid, lut, msg, handles, calls, awaiting, rbuf,
                   is_readable, has_errored, streamOff, bus, rxCount, lastTx>>

\* The response the device makes to the request with the header h: the header
\* echoed, the status OK
DeviceResponse(h) ==
    HdlcLiteFrame_encode(<<>>, Frame_new(h, PropertyValueIs("LastStatus", <<STATUS_OK>>)))

\* The device receives the request the actor has just transmitted, and holds
\* it when it holds none
DeviceReceive ==
    /\ ev.kind = "tx"
    /\ LET h == ev.frame[1].header
       IN  device' = IF device.held = <<>>
                     THEN [device EXCEPT !.held = <<h>>, !.later = FALSE,
                             !.reply.later = @ \/ h.tid = device.reply.tid]
                     ELSE [device EXCEPT !.later = @ \/ h.tid = device.held[1].tid,
                             !.reply.later = @ \/ h.tid = device.reply.tid]
    /\ ev' = [NoEv EXCEPT !.kind = "dev"]
    /\ UNCHANGED <<subs, codec, actor, iid, tid, lut, msg, handles, calls, awaiting, io, rbuf,
                   is_readable, has_errored, streamOff, bus, rxCount, lastTx>>

\* The device answers the request it holds, on an idle line (one response in
\* flight at a time)
DeviceReply(maxRx) ==
    /\ device.held # <<>>
    /\ io = <<>> /\ rbuf = <<>>
    /\ rxCount < maxRx
    /\ rxCount' = rxCount + 1
    /\ io' = DeviceResponse(device.held[1])
    /\ device' = [held |-> <<>>, later |-> FALSE,
                  reply |-> [tid |-> device.held[1].tid, later |-> device.later]]
    /\ ev' = [NoEv EXCEPT !.kind = "dev"]
    /\ UNCHANGED <<subs, codec, actor, iid, tid, lut, msg, handles, calls, awaiting, rbuf,
                   is_readable, has_errored, streamOff, bus, lastTx>>

\* A send_request whose send_frame hands the frame to a task of its own and
\* returns to the select! loop
TransmitRequest_returns_to_select ==
    /\ actor = "running"
    /\ msg # <<>>
    /\ Head(msg).kind \in RequestKinds
    /\ lastTx' = tid
    /\ ev' = [NoEv EXCEPT !.kind = "tx", !.cmd = Head(msg).kind,
                !.frame = <<RequestFrame(iid, tid, Head(msg).kind)>>]
    /\ msg' = Tail(msg)
    /\ streamOff' = FALSE
    /\ UNCHANGED <<device, subs, codec, actor, iid, tid, lut, handles, calls, awaiting, io,
                   rbuf, is_readable, has_errored, bus, rxCount>>

\* select!, msg branch, first half of send_request: send_frame has written the
\* frame and the task is suspended in it or about to go on; the handler of the
\* branch has not returned, so the select! is not polling the stream
TransmitRequest ==
    /\ actor = "running"
    /\ msg # <<>>
    /\ Head(msg).kind \in RequestKinds
    /\ actor' = "sending"
    /\ lastTx' = tid
    /\ ev' = [NoEv EXCEPT !.kind = "tx", !.cmd = Head(msg).kind,
                !.frame = <<RequestFrame(iid, tid, Head(msg).kind)>>]
    /\ streamOff' = FALSE
    /\ UNCHANGED <<device, subs, codec, iid, tid, lut, msg, handles, calls, awaiting, io, rbuf,
                   is_readable, has_errored, bus, rxCount>>

\* Second half of send_request: send_frame returned Ok, the receiver is sent to
\* the caller, the sender stored under self.tid, the TID incremented
RegisterRequest ==
    /\ actor = "sending"
    /\ LET kind == Head(msg).kind
           a == AfterSend(TRUE, tid, lut, kind)
           waits == Head(msg).live
       IN  /\ tid' = a.tid
           /\ lut' = a.lut
           /\ awaiting' =
                LET kept == Fail(awaiting, a.dropped)
                IN  IF waits THEN [kept EXCEPT ![tid] = @ + 1] ELSE kept
           /\ ev' = [NoEv EXCEPT !.kind = "reg", !.cmd = kind,
                       !.caller = IF waits THEN a.reply ELSE "Ok",
                       !.done = Closed(awaiting, a.dropped)]
    /\ msg' = Tail(msg)
    /\ actor' = "running"
    /\ UNCHANGED <<device, subs, codec, iid, handles, calls, io, rbuf, is_readable,
                   has_errored, streamOff, bus, rxCount, lastTx>>

\* The device receives the request the actor has just transmitted and queues it
DeviceAccept ==
    /\ ev.kind = "tx"
    /\ device' = [device EXCEPT !.held = Append(@, ev.frame[1].header)]
    /\ ev' = [NoEv EXCEPT !.kind = "dev"]
    /\ UNCHANGED <<subs, codec, actor, iid, tid, lut, msg, handles, calls, awaiting, io, rbuf,
                   is_readable, has_errored, streamOff, bus, rxCount, lastTx>>

\* The device answers the oldest request of its queue with a well-formed frame
\* carrying the request's TID
DeviceAnswer ==
    /\ device.held # <<>>
    /\ io' = io \o DeviceResponse(Head(device.held))
    /\ device' = [device EXCEPT !.held = Tail(@),
                    !.reply = [tid |-> Head(device.held).tid, later |-> FALSE]]
    /\ ev' = [NoEv EXCEPT !.kind = "dev"]
    /\ UNCHANGED <<subs, codec, actor, iid, tid, lut, msg, handles, calls, awaiting, rbuf,
                   is_readable, has_errored, streamOff, bus, rxCount, lastTx>>

\* HdlcCodec::encode(item, src) on the buffer src Framed keeps between writes
EncodeAppend ==
    /\ codec.stage = "unsent"
    /\ codec' = [codec EXCEPT !.stage = "appended",
                   !.bytes = HdlcCodec_encode(codec.frame[1].item, codec.frame[1].src)]
    /\ UNCHANGED <<device, subs, actor, iid, tid, lut, msg, handles, calls, awaiting, io, rbuf,
                   is_readable, has_errored, streamOff, bus, rxCount, lastTx, ev>>

\* HdlcLiteFrame::decode of the bytes the encoder appended
DecodeAppended ==
    /\ codec.stage = "appended"
    /\ codec' = [codec EXCEPT !.stage = "appended_decoded",
                   !.result = HdlcLiteFrame_decode(
                                 Slice(codec.bytes, Len(codec.frame[1].src),
                                       Len(codec.bytes)))]
    /\ UNCHANGED <<device, subs, actor, iid, tid, lut, msg, handles, calls, awaiting, io, rbuf,
                   is_readable, has_errored, streamOff, bus, rxCount, lastTx, ev>>

\* PackedU32::encode(value) for any u32: the count it reports, with the array
WideEncode ==
    /\ codec.stage = "wide"
    /\ codec' = [codec EXCEPT !.stage = "wide_encoded",
                              !.bytes = PackedU32_encode(codec.frame[1])[1],
                              !.result = Ok(PackedU32_encode(codec.frame[1])[2])]
    /\ UNCHANGED <<device, subs, actor, iid, tid, lut, msg, handles, calls, awaiting, io, rbuf,
                   is_readable, has_errored, streamOff, bus, rxCount, lastTx, ev>>

\* PackedU32::write_to_buffer(value, buffer) for any u32: &array[..count] panics
\* when count exceeds the three octets of the array
WideWrite ==
    /\ codec.stage = "wide"
    /\ codec' = [codec EXCEPT !.stage = "wide_written",
                   !.result = IF PackedU32_encode(codec.frame[1])[2] > 3 THEN Panic
                              ELSE Ok(write_to_buffer(codec.frame[1]))]
    /\ UNCHANGED <<device, subs, actor, iid, tid, lut, msg, handles, calls, awaiting, io, rbuf,
                   is_readable, has_errored, streamOff, bus, rxCount, lastTx, ev>>

\* The actor's own steps
ActorStep ==
    \/ \E ok \in BOOLEAN : ProcessMsg(ok)
    \/ StreamRead
    \/ StreamDecodePanic
    \/ StreamDecodeErr
    \/ StreamDecodeNone
    \/ StreamDecodeFrame
    \/ StreamEnd
    \/ SelectPanic

\* Every kind of call, few device frames
Next ==
    \/ \E kind \in RequestKinds : ClientCall(kind, MaxCalls)
    \/ DropHandle
    \/ \E chunk \in SpecChunks : DeviceWrite(chunk, MaxRx)
    \/ ActorStep

Spec == Init /\ [][Next]_vars

\* More calls than the TID space holds
NextCycle ==
    \/ \E kind \in {"Noop"} : ClientCall(kind, MaxCallsCycle)
    \/ \E chunk \in CycleChunks : DeviceWrite(chunk, MaxRxCycle)
    \/ \E ok \in BOOLEAN : ProcessMsg(ok)
    \/ StreamRead
    \/ StreamDecodeNone
    \/ StreamDecodeFrame

SpecCycle == Init /\ [][NextCycle]_vars

\* Every kind of unsolicited frame
NextBus ==
    \/ \E kind \in {"Noop", "Reset"} : ClientCall(kind, MaxCallsBus)
    \/ \E chunk \in BusChunks : DeviceWrite(chunk, MaxRxBus)
    \/ \E ok \in BOOLEAN : ProcessMsg(ok)
    \/ StreamRead
    \/ StreamDecodeNone
    \/ StreamDecodeFrame

SpecBus == Init /\ [][NextBus]_vars

\* Malformed input on the serial line
NextWire ==
    \/ \E kind \in {"Noop"} : ClientCall(kind, MaxCallsWire)
    \/ DropHandle
    \/ \E chunk \in WireChunks : DeviceWrite(chunk, MaxRxWire)
    \/ ActorStep

SpecWire == Init /\ [][NextWire]_vars

\* The calls that wait for a response, their futures dropped at any point
NextClient ==
    \/ \E kind \in {"Noop", "LastStatus", "RadioFirmwareVersion"} :
           ClientCall(kind, MaxCallsClient)
    \/ \E k \in 1..MaxQueue : CancelQueued(k)
    \/ \E t \in TID_START..TID_MAX : CancelAwait(t)
    \/ \E chunk \in ClientChunks : DeviceWrite(chunk, MaxRxClient)
    \/ \E ok \in BOOLEAN : ProcessMsg(ok)
    \/ StreamRead
    \/ StreamDecodeNone
    \/ StreamDecodeFrame

SpecClient == Init /\ [][NextClient]_vars

\* What the device sends while buses are subscribed to
SubChunks == {DebugTid0}

\* Subscriptions to every bus, between requests and inbound frames
NextSub ==
    \/ \E kind \in SubscribeKinds \cup {"Noop"} : ClientCall(kind, MaxCallsSub)
    \/ \E k \in 1..MaxQueue : CancelQueued(k)
    \/ ProcessSubscribe
    \/ \E i \in 1..MaxCallsSub : SubscriberRecv(i)
    \/ \E chunk \in SubChunks : DeviceWrite(chunk, MaxRxSub)
    \/ \E ok \in BOOLEAN : ProcessMsg(ok)
    \/ StreamRead
    \/ StreamDecodeNone
    \/ StreamDecodeFrame

SpecSub == Init /\ [][NextSub]_vars

RECURSIVE Burst(_, _)
\* n copies of a chunk written at once
Burst(chunk, n) == IF n = 0 THEN <<>> ELSE chunk \o Burst(chunk, n - 1)

\* A subscriber of the debug bus that reads late, while the device streams
\* MaxBurst frames: one write for each bus capacity they fill
NextLag ==
    \/ \E kind \in {"SubscribeDebugBroadcast"} : ClientCall(kind, MaxCallsLag)
    \/ \E kind \in {"Noop"} : ClientCall(kind, MaxCallsLag + 1)
    \/ ProcessSubscribe
    \/ \E i \in 1..MaxCallsLag : SubscriberRecv(i)
    \/ \E chunk \in {Burst(DebugTid0, MaxBurst)} :
           DeviceWrite(chunk, MaxBurst \div DEFAULT_BROADCAST_CAPACITY)
    \/ \E ok \in BOOLEAN : ProcessMsg(ok)
    \/ StreamRead
    \/ StreamDecodeNone
    \/ StreamDecodeFrame

SpecLag == Init /\ [][NextLag]_vars

\* Octets a property value is made of: plain ones, a reset reason, the flag
CodecBytes == {0, 65, 120, 126}

CodecValues == UNION {[1..n -> CodecBytes] : n \in 0..MaxPayload}

CodecProperties == {"LastStatus", "NcpVersion", "StreamDebug"}

CodecCommands ==
    {Noop, Reset}
      \cup {PropertyValueGet(p) : p \in CodecProperties}
      \cup {PropertyValueIs(p, v) : p \in CodecProperties, v \in CodecValues}

\* The frames handed to HdlcLiteFrame::new
CodecFrames ==
    {Frame_new(Header_new(i, t), c) : i \in {0, 2}, t \in {0, 3}, c \in CodecCommands}

InitCodec ==
    /\ InitHost
    /\ codec \in {[NoCodec EXCEPT !.stage = "frame", !.frame = <<f>>] : f \in CodecFrames}

\* A frame is encoded, one bit of it may be inverted on the line, it is decoded
NextCodec ==
    \/ CodecEncode
    \/ \E i \in DOMAIN codec.bytes, bit \in 0..7 : CodecFlip(i, bit)
    \/ CodecDecode

SpecCodec == InitCodec /\ [][NextCodec]_vars

\* Every sequence of at most n elements of S
SeqsUpTo(S, n) == UNION {[1..k -> S] : k \in 0..n}

\* Octets of a searched buffer: the delimiter, the escape octet, a plain one
FindBytes == {126, 125, 1}

\* Octets in front of a frame: none, plain ones, ending in a delimiter, and a
\* delimiter followed by a plain one
FindGarbage == {<<>>, <<9, 39>>, <<9, 126>>, <<126, 9>>}

\* Octets behind a frame
FindMore == {<<>>, <<17, 35>>, <<126, 129>>}

\* Frames encoded into the searched buffer
FindFrames ==
    {Frame_new(Header_new(0, 1), Noop),
     Frame_new(Header_new(0, 1), PropertyValueIs("NcpVersion", <<65>>)),
     Frame_new(Header_new(2, 3), PropertyValueIs("StreamDebug", <<126>>))}

InitFind ==
    /\ InitHost
    /\ codec \in
         {[NoCodec EXCEPT !.stage = "buffer", !.bytes = b] :
             b \in SeqsUpTo(FindBytes, MaxFindLen)}
         \cup
         {[NoCodec EXCEPT !.stage = "buffer",
                          !.frame = <<[garbage |-> g, frame |-> f, more |-> m]>>,
                          !.bytes = (g \o HdlcLiteFrame_encode(<<>>, f)) \o m] :
             g \in FindGarbage, f \in FindFrames, m \in FindMore}

\* A buffer is searched for a frame
NextFind == FindFrame

SpecFind == InitFind /\ [][NextFind]_vars

\* The properties the codec knows
Properties ==
    {"LastStatus", "ProtocolVersion", "NcpVersion", "InterfaceType", "StreamDebug",
     "StreamNet", "StreamNetInsecure", "StreamLog"}

\* Octets of a property value: with and without the continuation bit
ValueBytes == {0, 128, 255}

\* Every frame of the claimed domain, values of at most MaxPayload octets
SpinelFrames ==
    {Frame_new(Header_new(i, t), c) :
        i \in 0..3, t \in 0..15,
        c \in {Noop, Reset}
                \cup {PropertyValueGet(p) : p \in Properties}
                \cup {PropertyValueIs(p, v) :
                        p \in Properties, v \in SeqsUpTo(ValueBytes, MaxPayload)}}

\* A frame to encode, a buffer of fewer than two octets to decode, a header to
\* convert, or an octet to take for a header
InitFrame ==
    /\ InitHost
    /\ codec \in
         {[NoCodec EXCEPT !.stage = "spinel", !.frame = <<f>>] : f \in SpinelFrames}
         \cup {[NoCodec EXCEPT !.stage = "spinel_bytes", !.bytes = b] :
                 b \in SeqsUpTo(0..255, 1)}
         \cup {[NoCodec EXCEPT !.stage = "header", !.frame = <<Header_new(i, t)>>] :
                 i \in 0..3, t \in 0..15}
         \cup {[NoCodec EXCEPT !.stage = "octet", !.bytes = <<b>>] : b \in 0..255}

NextFrame ==
    \/ FrameEncode
    \/ FrameDecode
    \/ HeaderInto
    \/ HeaderTryFrom

SpecFrame == InitFrame /\ [][NextFrame]_vars

\* The largest value three octets hold
PACKED_MAX == 2097151

\* The values at which the packed length changes, and the ends of the range
PackedBoundaries == {0, 128, 16384, PACKED_MAX}

\* The values around each boundary
PackedValues ==
    UNION {{v \in (b - MaxPackedSpan)..(b + MaxPackedSpan) : v >= 0 /\ v <= PACKED_MAX} :
              b \in PackedBoundaries}

\* Octets of a command buffer: the command ids 0, 2 and 6, the unknown id 5,
\* and octets with the continuation bit set or clear in the seven others
CommandBytes == {0, 2, 5, 6, 127, 255}

\* A value to pack, or octets to take for a packed integer or for a command
InitPacked ==
    /\ InitHost
    /\ codec \in
         {[NoCodec EXCEPT !.stage = "u32", !.frame = <<v>>] : v \in PackedValues}
         \cup {[NoCodec EXCEPT !.stage = s, !.bytes = b] :
                 s \in {"packed_slice", "command_bytes"},
                 b \in SeqsUpTo(CommandBytes, MaxCommandLen)}

NextPacked ==
    \/ PackedEncode
    \/ PackedDecode
    \/ PackedTryFrom
    \/ CommandDecode

SpecPacked == InitPacked /\ [][NextPacked]_vars

\* Octets of a slice handed to HdlcLiteFrame::decode: the escape set and a plain one
SliceBytes == {126, 125, 17, 19, 248, 1}

\* Any slice, aligned on delimiters or not, ready to be decoded
InitDelim ==
    /\ InitHost
    /\ codec \in {[NoCodec EXCEPT !.stage = "encoded", !.bytes = b] :
                    b \in SeqsUpTo(SliceBytes, MaxSliceLen)}

NextDelim == CodecDecode

SpecDelim == InitDelim /\ [][NextDelim]_vars

\* Unsolicited debug frames that differ in their value
StreamFrames ==
    {Frame_new(Header_new(0, 0), PropertyValueIs("StreamDebug", <<v>>)) : v \in {65, 66}}

RECURSIVE StreamBytes(_, _)
\* The encodings of the frames fs one after the other, each with its own pair
\* of delimiters or, shared, with one delimiter between two frames
StreamBytes(fs, shared) ==
    IF fs = <<>> THEN <<>>
    ELSE IF Len(fs) = 1 THEN HdlcLiteFrame_encode(<<>>, fs[1])
    ELSE HdlcLiteFrame_encode(<<>>, fs[1])
           \o (IF shared THEN Tail(StreamBytes(Tail(fs), shared))
               ELSE StreamBytes(Tail(fs), shared))

\* The device is about to send a stream of well-formed frames; codec.frame
\* lists them with the number of octets up to their closing delimiter
InitStream ==
    /\ InitHost
    /\ codec \in
         {[NoCodec EXCEPT
             !.stage = "stream",
             !.frame = [k \in DOMAIN fs |->
                          [frame |-> fs[k],
                           end |-> Len(StreamBytes(SubSeq(fs, 1, k), shared))]],
             !.bytes = StreamBytes(fs, shared)] :
            fs \in SeqsUpTo(StreamFrames, MaxStreamFrames) \ {<<>>},
            shared \in BOOLEAN}

\* The stream arrives in reads of any size and the actor decodes what it has
NextStream ==
    \/ \E n \in 1..(8 * MaxStreamFrames) : StreamFeed(n)
    \/ StreamRead
    \/ StreamDecodeNone
    \/ StreamDecodeFrame

SpecStream == InitStream /\ [][NextStream]_vars

\* A device that answers a request it has received at any later time, and
\* announces a reset
NextReply ==
    \/ ClientCall("Noop", MaxCallsReply)
    \/ ProcessMsg(TRUE)
    \/ DeviceReceive
    \/ DeviceReply(MaxRxReply)
    \/ DeviceWrite(ResetSoftware, MaxRxReply)
    \/ StreamRead
    \/ StreamDecodeNone
    \/ StreamDecodeFrame

SpecReply == Init /\ [][NextReply]_vars

\* Unsolicited frames (TID 0) of every command, most of them for no bus
DropCommands ==
    {Noop, Reset, PropertyValueGet("LastStatus"), PropertyValueGet("NcpVersion"),
     PropertyValueIs("NcpVersion", <<65>>), PropertyValueIs("ProtocolVersion", <<4, 3>>),
     PropertyValueIs("InterfaceType", <<3>>), PropertyValueIs("StreamLog", <<65>>),
     PropertyValueIs("StreamDebug", <<>>)}
    \cup {PropertyValueIs("LastStatus", v) :
            v \in {<<>>, <<0>>, <<1>>, <<111>>, <<112>>, <<119>>, <<121>>, <<127>>,
                   <<240, 0>>, <<128, 1>>, <<112, 1>>}}

DropChunks ==
    {HdlcLiteFrame_encode(<<>>, Frame_new(Header_new(i, 0), c)) :
        i \in {0, 1}, c \in DropCommands}

NextDrop ==
    \/ ClientCall("Noop", MaxCallsDrop)
    \/ ProcessMsg(TRUE)
    \/ \E chunk \in DropChunks : DeviceWrite(chunk, MaxRxDrop)
    \/ StreamRead
    \/ StreamDecodeNone
    \/ StreamDecodeFrame

SpecDrop == Init /\ [][NextDrop]_vars

\* send_request in its two halves, with a device that may answer between them
NextOrder ==
    \/ ClientCall("Noop", MaxCallsOrder)
    \/ TransmitRequest
    \/ RegisterRequest
    \/ DeviceReceive
    \/ DeviceReply(MaxRxOrder)
    \/ StreamRead
    \/ StreamDecodeNone
    \/ StreamDecodeFrame

SpecOrder == Init /\ [][NextOrder]_vars

\* Concurrent callers, a transport that does not fail, and a device that
\* receives every request frame as it is written and answers each in turn
NextLive ==
    \/ /\ ev.kind = "tx"
       /\ DeviceAccept
    \/ /\ ev.kind # "tx"
       /\ \/ \E kind \in {"Noop", "LastStatus", "RadioFirmwareVersion"} :
                ClientCall(kind, MaxCallsLive)
          \/ ProcessMsg(TRUE)
          \/ DeviceAnswer
          \/ StreamRead
          \/ StreamDecodeNone
          \/ StreamDecodeFrame

\* select! polls both branches and picks among the ready ones at random, so a
\* branch that stays ready is taken; the device answers what it has queued.
\* Framed in its framing state (is_readable) is ready until the decoder has
\* returned None, so weak fairness of its decode steps is that it leaves that
\* state again and again.
SpecLive ==
    /\ Init
    /\ [][NextLive]_vars
    /\ WF_vars(ProcessMsg(TRUE))
    /\ WF_vars(StreamRead)
    /\ []<>(~is_readable)
    /\ WF_vars(DeviceAccept)
    /\ WF_vars(DeviceAnswer)

\* A connection opened with any iid new_from_serial accepts (a u8)
InitIid == InitActor(0..255) /\ codec = NoCodec

NextIid ==
    \/ ClientCall("Noop", MaxCallsIid)
    \/ \E ok \in BOOLEAN : ProcessMsg(ok)

SpecIid == InitIid /\ [][NextIid]_vars

\* Request frames encoded into a write buffer that may hold unsent bytes; no
\* frame of these has an octet of the escape set in it or in its CRC
AppendFrames ==
    {Frame_new(Header_new(0, t), c) :
        t \in TID_START..9,
        c \in {Noop, PropertyValueGet("LastStatus"), PropertyValueGet("NcpVersion")}}

AppendBuffers ==
    {<<>>, <<0>>, <<126>>, HdlcLiteFrame_encode(<<>>, Frame_new(Header_new(0, 1), Noop))}

InitAppend ==
    /\ InitHost
    /\ codec \in {[NoCodec EXCEPT !.stage = "unsent", !.frame = <<[item |-> f, src |-> b]>>] :
                    f \in AppendFrames, b \in AppendBuffers}

NextAppend ==
    \/ EncodeAppend
    \/ DecodeAppended

SpecAppend == InitAppend /\ [][NextAppend]_vars

\* u32 values around the 21-bit limit, around 2^28 and near 2^31 (the integers
\* of the checker end at 2^31 - 1)
WideBoundaries == {PACKED_MAX, 268435456, 2147483000}

WideValues ==
    UNION {(b - MaxPackedSpan)..(b + MaxPackedSpan) : b \in WideBoundaries}

InitWide ==
    /\ InitHost
    /\ codec \in {[NoCodec EXCEPT !.stage = "wide", !.frame = <<v>>] : v \in WideValues}

NextWide ==
    \/ WideEncode
    \/ WideWrite

SpecWide == InitWide /\ [][NextWide]_vars

----------------------------------------------------------------------------
(* Properties of the actor *)

\* The request frame of the step just taken, and the TID in its header octet
TxFrame(e) == e.frame[1]

TxTid(e) == Header_to_u8(TxFrame(e).header) % 16

\* The frame the step just taken decoded
RxFrame(e) == e.frame[1]

\* C1: the TIDs of the request frames the actor transmits follow each other as
\* 1,2,...,15,1,2,...: the first frame after start or after a reset
\* notification carries TID 1, every other one the successor (15 -> 1) of the
\* TID transmitted before it; a failed transmit is skipped in that sequence,
\* and TID 0 is never used.
C1_TidSequence ==
    [][ev'.kind = "tx" =>
         /\ TxTid(ev') \in 1..15
         /\ TxTid(ev') = IF lastTx = 0 THEN 1 ELSE (lastTx % 15) + 1]_vars

\* C1 witness: the counter has gone round once, with one failed transmit on the
\* way and no reset notification
C1_Witness ==
    /\ ev.kind = "tx"
    /\ TxTid(ev) = 1
    /\ calls = 17
    /\ bus["Reset"] = <<>>
    /\ Cardinality(DOMAIN lut) = 15

\* C4: at most one caller awaits a response under each TID
C4_OneOutstandingPerTid == \A t \in DOMAIN awaiting : awaiting[t] <= 1

\* C4 witness: a request is registered under a TID that still had an awaiter,
\* who is failed in the same step
C4_Witness ==
    /\ ev.kind = "tx"
    /\ <<TxTid(ev), "HostConnectionRecv">> \in ev.done
    /\ awaiting[TxTid(ev)] = 1

\* C3: a decoded frame with TID t # 0 is sent on the one-shot stored under t,
\* whose entry is removed in the same step, and completes the caller awaiting
\* under t; with no entry under t the step changes neither the TID counter nor
\* the table nor any awaiter.  No bus receives the frame in either case.
C3_ResponseDispatch ==
    [][(ev'.kind = "rx" /\ RxFrame(ev').header.tid # 0) =>
         LET t == RxFrame(ev').header.tid
         IN  /\ ev'.pub = ""
             /\ bus' = bus
             /\ tid' = tid
             /\ IF t \in DOMAIN lut
                THEN /\ ev'.sink = <<t>>
                     /\ DOMAIN lut' = (DOMAIN lut) \ {t}
                     /\ \A k \in DOMAIN lut' : lut'[k] = lut[k]
                     /\ ev'.done = IF awaiting[t] > 0 THEN {<<t, "Frame">>} ELSE {}
                     /\ \A k \in DOMAIN awaiting :
                          awaiting'[k] = IF k = t THEN 0 ELSE awaiting[k]
                ELSE /\ ev'.sink = <<>>
                     /\ lut' = lut
                     /\ ev'.done = {}
                     /\ awaiting' = awaiting]_vars

\* C3 witness: a response is handed to its caller while other requests stay
\* pending
C3_Witness ==
    /\ ev.kind = "rx"
    /\ ev.sink = <<2>>
    /\ ev.done = {<<2, "Frame">>}
    /\ 1 \in DOMAIN lut /\ 3 \in DOMAIN lut /\ 2 \notin DOMAIN lut

\* C5: a decoded TID 0 frame Is(LastStatus, v) with v's packed integer in
\* 112..120 sets the TID counter to 1, empties the table, is appended to the
\* Reset bus and to no other, and fails every awaiter of a pending request with
\* HostConnectionRecv, all in one step
C5_ResetNotification ==
    [][(/\ ev'.kind = "rx"
        /\ RxFrame(ev').header.tid = 0
        /\ RxFrame(ev').command.cmd = "PropertyValueIs"
        /\ RxFrame(ev').command.prop = "LastStatus"
        /\ PackedU32_decode(RxFrame(ev').command.value)[1] \in 112..120) =>
         /\ tid' = 1
         /\ lut' = <<>>
         /\ ev'.pub = "Reset"
         /\ bus' = [bus EXCEPT !["Reset"] = Append(@, RxFrame(ev'))]
         /\ ev'.sink = <<>>
         /\ ev'.done = {<<t, "HostConnectionRecv">> :
                          t \in {k \in DOMAIN lut : CallerAwaits(lut[k])}}
         /\ \A t \in DOMAIN awaiting : awaiting'[t] = 0]_vars

\* C5 witness: a reset notification arrives with several requests pending
C5_Witness ==
    /\ ev.kind = "rx"
    /\ ev.pub = "Reset"
    /\ Cardinality(ev.done) >= 3
    /\ lut = <<>> /\ tid = 1

\* C8: a failed transmit answers the request with Io and leaves the TID counter,
\* the table and the awaiters as they were; a successful one registers the
\* request under the TID its frame carried and moves the counter to the next TID
C8_SendOutcome ==
    [][/\ ev'.kind = "txfail" =>
            /\ ev'.caller = "Io"
            /\ tid' = tid /\ lut' = lut /\ awaiting' = awaiting
            /\ TxTid(ev') = tid'
       /\ ev'.kind = "tx" =>
            /\ ev'.caller = "Receiver"
            /\ TxTid(ev') = tid
            /\ DOMAIN lut' = (DOMAIN lut) \cup {TxTid(ev')}
            /\ lut'[TxTid(ev')] = ev'.cmd
            /\ \A k \in (DOMAIN lut) \ {TxTid(ev')} : lut'[k] = lut[k]
            /\ tid' = IF tid = 15 THEN 1 ELSE tid + 1
            /\ awaiting'[TxTid(ev')] = 1]_vars

\* C8 witness: a transmit fails while other requests are pending
C8_Witness ==
    /\ ev.kind = "txfail"
    /\ ev.caller = "Io"
    /\ tid = 3
    /\ DOMAIN lut = {1, 2}
    /\ awaiting[3] = 0

\* The bus a TID 0 frame belongs on, read off the frame ("" for none)
MatchingBus(f) ==
    IF f.command.cmd # "PropertyValueIs" THEN ""
    ELSE IF f.command.prop = "LastStatus"
         THEN IF PackedU32_decode(f.command.value)[1] \in 112..120 THEN "Reset" ELSE ""
    ELSE IF f.command.prop = "StreamDebug" THEN "Debug"
    ELSE IF f.command.prop = "StreamNet" THEN "Net"
    ELSE IF f.command.prop = "StreamNetInsecure" THEN "NetInsecure"
    ELSE IF f.command.prop = "StreamLog" THEN "Log"
    ELSE ""

\* A decoded TID 0 frame is appended to the bus matching its command and to no
\* other
OnlyMatchingBus ==
    (ev'.kind = "rx" /\ RxFrame(ev').header.tid = 0) =>
        /\ ev'.pub = MatchingBus(RxFrame(ev'))
        /\ bus' = IF MatchingBus(RxFrame(ev')) = "" THEN bus
                  ELSE [bus EXCEPT ![MatchingBus(RxFrame(ev'))] = Append(@, RxFrame(ev'))]

\* C2 as stated: a decoded TID 0 frame goes to the bus matching its command and
\* to no other, and neither completes nor removes a pending request
C2_AsStated ==
    [][/\ OnlyMatchingBus
       /\ (ev'.kind = "rx" /\ RxFrame(ev').header.tid = 0) =>
            /\ ev'.sink = <<>>
            /\ ev'.done = {}
            /\ lut' = lut
            /\ awaiting' = awaiting]_vars

\* C2, amended: a decoded TID 0 frame goes to the bus matching its command and
\* to no other and is never handed to a pending request's one-shot; unless it
\* is a reset notification it leaves the TID counter, the table and every
\* awaiter as they were
C2_BroadcastDispatch ==
    [][/\ OnlyMatchingBus
       /\ (ev'.kind = "rx" /\ RxFrame(ev').header.tid = 0) =>
            /\ ev'.sink = <<>>
            /\ \A t \in DOMAIN awaiting : <<t, "Frame">> \notin ev'.done
            /\ MatchingBus(RxFrame(ev')) # "Reset" =>
                 /\ ev'.done = {}
                 /\ tid' = tid
                 /\ lut' = lut
                 /\ awaiting' = awaiting]_vars

\* C2 witness: a Stream Net frame is published while a request is pending
C2_Witness ==
    /\ ev.kind = "rx"
    /\ RxFrame(ev).header.tid = 0
    /\ ev.pub = "Net"
    /\ bus["Net"] = <<RxFrame(ev)>>
    /\ bus["NetInsecure"] = <<>>
    /\ DOMAIN lut = {1}
    /\ awaiting[1] = 1

\* C6 as stated: the Reset frame is transmitted with TID 0, and transmitting it
\* changes neither the table nor the TID counter
C6_ResetUsesTidZero ==
    [][(ev'.kind = "tx" /\ ev'.cmd = "Reset") =>
         /\ TxTid(ev') = 0
         /\ lut' = lut
         /\ tid' = tid]_vars

\* C7 as stated: reset() does not return Ok when the transmit of its frame fails
\* or the actor is gone (ev.caller is what the caller of the request has got)
C7_ResetReportsFailure ==
    /\ (ev.kind = "txfail" /\ ev.cmd = "Reset") => ev.caller # "Ok"
    /\ (ev.kind = "call" /\ ev.cmd = "Reset" /\ actor # "running") => ev.caller # "Ok"

\* C9 as stated: whatever bytes arrive, the actor's task does not panic
C9_NeverPanics == actor = "running"

\* The bytes received and not yet decoded start with a well-formed frame
FrameWaiting ==
    \E r \in {HdlcCodec_decode(rbuf \o io)} : r.res.tag = "Ok" /\ r.res.val # <<>>

\* C10 as stated: after a decode error the actor goes on decoding without a
\* client request: with a well-formed frame received and the message queue
\* empty, the running actor still polls the stream
C10_Resynchronises ==
    (actor = "running" /\ msg = <<>> /\ FrameWaiting) => ~streamOff

\* The kinds of step the actor's event loop takes
LoopSteps == {"tx", "txfail", "sub", "read", "rxnone", "rx", "rxerr", "end", "panic"}

\* C11 as stated: once every handle is dropped and the queue is drained, an
\* event-loop iteration that has completed is the last one: the actor neither
\* polls the stream again nor panics
C11_StopsWhenHandlesDropped ==
    [][(actor = "running" /\ handles = 0 /\ msg = <<>> /\ ev.kind \in {"rx", "rxerr"})
         => ev'.kind \notin LoopSteps]_vars

\* The status a LastStatus payload decodes to as a packed integer: <<s>> when
\* it is one of 0..24, <<>> when the payload is empty or decodes to another value
PayloadStatus(v) ==
    IF v = <<>> \/ PackedU32_decode(v)[2] = 0 THEN <<>>
    ELSE IF PackedU32_decode(v)[1] \in STATUS_OK..STATUS_RESPONSE_TIMEOUT
         THEN <<PackedU32_decode(v)[1]>>
         ELSE <<>>

\* C12 as stated: noop() returns Ok(()) exactly when the response routed to it is
\* Is(LastStatus, payload) with a payload that decodes to Status Ok, Err(Status(s))
\* when the payload decodes to another status s, and Err(UnexpectedResponse(frame))
\* for every other response, a LastStatus payload that is empty or outside 0..=24
\* included.
C12_NoopResult ==
    (ev.kind = "rx" /\ ev.cmd = "Noop") =>
        LET f == ev.frame[1]
            s == IF f.command.cmd = "PropertyValueIs" /\ f.command.prop = "LastStatus"
                 THEN PayloadStatus(f.command.value)
                 ELSE <<>>
        IN  IF s = <<>>
            THEN /\ ev.result.tag = "Err"
                 /\ ev.result.err = "UnexpectedResponse"
                 /\ ev.result.arg = f
            ELSE IF s[1] = STATUS_OK
                 THEN ev.result.tag = "Ok"
                 ELSE /\ ev.result.tag = "Err"
                      /\ ev.result.err = "Status"
                      /\ ev.result.arg = s[1]

\* C13: controller_version() returns Ok(payload) exactly when the response routed
\* to it is Is(NcpVersion, payload), and Err(UnexpectedResponse(frame)) for every
\* other response frame.
C13_ControllerVersionResult ==
    (ev.kind = "rx" /\ ev.cmd = "RadioFirmwareVersion") =>
        LET f == ev.frame[1]
        IN  IF f.command.cmd = "PropertyValueIs" /\ f.command.prop = "NcpVersion"
            THEN /\ ev.result.tag = "Ok"
                 /\ ev.result.val = f.command.value
            ELSE /\ ev.result.tag = "Err"
                 /\ ev.result.err = "UnexpectedResponse"
                 /\ ev.result.arg = f

\* controller_version() has returned the version the device sent
C13_Witness ==
    /\ ev.kind = "rx"
    /\ ev.cmd = "RadioFirmwareVersion"
    /\ ev.frame = <<Frame_new(Header_new(iid, 1), PropertyValueIs("NcpVersion", <<65>>))>>
    /\ ev.result.tag = "Ok"
    /\ ev.result.val = <<65>>

\* C14 as stated: last_status() sends Get(LastStatus) and returns to the caller
\* the raw status payload of the matching-TID response.
C14_LastStatusPayload ==
    /\ (ev.kind = "tx" /\ ev.cmd = "LastStatus") =>
           ev.frame[1].command = PropertyValueGet("LastStatus")
    /\ (/\ ev.kind = "rx"
        /\ ev.cmd = "LastStatus"
        /\ ev.frame[1].command.cmd = "PropertyValueIs") =>
           /\ ev.result.tag = "Ok"
           /\ ev.result.val = ev.frame[1].command.value

\* The bus each subscribe operation is named after
NamedBus ==
    [SubscribeResetMessage |-> "Reset", SubscribeDebugBroadcast |-> "Debug",
     SubscribeNetBroadcast |-> "Net", SubscribeNetInsecureBroadcast |-> "NetInsecure",
     SubscribeLogBroadcast |-> "Log"]

\* C15: processing a subscribe_* message replies with a receiver for the named
\* bus, which sees the frames published from then on, transmits no frame and
\* leaves the TID counter, the pending table and the awaiting callers unchanged,
\* whatever the TID counter and the pending table hold.
C15_SubscribeTakesNoTid ==
    [][(msg # <<>> /\ msg' = Tail(msg) /\ ev'.kind = "sub") =>
          /\ tid' = tid
          /\ lut' = lut
          /\ awaiting' = awaiting
          /\ lastTx' = lastTx
          /\ bus' = bus
          /\ ev'.frame = <<>>
          /\ ev'.caller = "Receiver"
          /\ ev'.pub = NamedBus[Head(msg).kind]
          /\ Head(msg).live =>
                subs' = Append(subs, [bus |-> NamedBus[Head(msg).kind],
                                      next |-> Len(bus[NamedBus[Head(msg).kind]]) + 1])
      ]_vars

\* A subscription to the log bus was processed while a request was pending
C15_Witness ==
    /\ ev.kind = "sub"
    /\ ev.cmd = "SubscribeLogBroadcast"
    /\ DOMAIN lut = {1}
    /\ tid = 2
    /\ subs = <<[bus |-> "Log", next |-> 1]>>

\* The frames the i-th receiver has not taken yet
Unread(i) == Len(bus[subs[i].bus]) - subs[i].next + 1

\* C16: publishing on a bus never waits for a subscriber: a decoded frame is
\* dispatched and a queued request sent however many frames the receivers have
\* left unread, a published frame is appended to its bus and touches no receiver,
\* and a receiver more than 16 frames behind gets Lagged(n) for the n oldest
\* frames it lost and continues with the oldest of the 16 retained, while one at
\* most 16 behind gets its next frame.
C16_LagWithoutBackPressure ==
    [][/\ (actor = "running" /\ msg # <<>> /\ Head(msg).kind \in RequestKinds) =>
              ENABLED ProcessMsg(TRUE)
       /\ (ev'.kind = "rx" /\ ev'.pub # "") =>
              /\ bus'[ev'.pub] = Append(bus[ev'.pub], ev'.frame[1])
              /\ subs' = subs
              /\ actor' = "running"
       /\ ev'.kind = "recv" =>
              LET i == ev'.sink[1]
              IN  IF Unread(i) > 16
                  THEN /\ ev'.caller = "Lagged"
                       /\ ev'.n = Unread(i) - 16
                       /\ ev'.frame = <<>>
                       /\ subs'[i].next = subs[i].next + (Unread(i) - 16)
                  ELSE /\ ev'.caller = "Frame"
                       /\ ev'.frame = <<bus[subs[i].bus][subs[i].next]>>
                       /\ subs'[i].next = subs[i].next + 1
      ]_vars

\* A receiver that read nothing while 17 frames were published and a request
\* was sent is told it lost one frame
C16_Witness ==
    /\ ev.kind = "recv"
    /\ ev.caller = "Lagged"
    /\ ev.n = 1
    /\ Len(bus["Debug"]) = 17
    /\ DOMAIN lut = {1}
    /\ actor = "running"

\* C17: when the response to a request whose awaiter was cancelled arrives, the
\* actor removes the pending entry and discards the frame: no awaiter receives
\* it, no bus carries it, and the actor keeps running.
C17_CancelledResponseDiscarded ==
    [][(/\ ev'.kind = "rx"
        /\ ev'.frame[1].header.tid \in DOMAIN lut
        /\ awaiting[ev'.frame[1].header.tid] = 0) =>
          /\ ev'.frame[1].header.tid \notin DOMAIN lut'
          /\ ev'.done = {}
          /\ ev'.result.tag = "None"
          /\ awaiting' = awaiting
          /\ bus' = bus
          /\ ev'.pub = ""
          /\ actor' = "running"
      ]_vars

\* The response under TID 1 found the one-shot of its entry closed
C17_Witness ==
    /\ ev.kind = "rx"
    /\ ev.frame # <<>>
    /\ ev.sink = <<1>>
    /\ ev.done = {}
    /\ 1 \notin DOMAIN lut
    /\ actor = "running"

----------------------------------------------------------------------------
(* Properties of the HDLC-Lite framing *)

\* C18 as stated: for every well-formed Frame f, frames whose encoded bytes or
\* CRC hold 0x7E, 0x7D, 0x11, 0x13 or 0xF8 included, HdlcLiteFrame::decode of the
\* bytes HdlcLiteFrame::encode produced for f returns f.
C18_HdlcRoundTrip ==
    (codec.stage = "decoded" /\ ~codec.flipped) =>
        /\ codec.result.tag = "Ok"
        /\ codec.result.val = codec.frame[1]

RECURSIVE Escaped(_)
\* bytes with every octet of the escape set replaced by 0x7D and the octet XOR 0x20
Escaped(bytes) ==
    IF bytes = <<>> THEN <<>>
    ELSE (IF Head(bytes) \in {126, 125, 17, 19, 248}
          THEN <<125, BitXor(Head(bytes), 32)>>
          ELSE <<Head(bytes)>>) \o Escaped(Tail(bytes))

\* Frame || CRC (little endian) of a frame, before escaping
FrameAndCrc(f) ==
    Frame_encode(f) \o <<Crc16X25(Frame_encode(f)) % 256, Crc16X25(Frame_encode(f)) \div 256>>

\* C19 as stated: in the output of HdlcLiteFrame::encode no byte strictly between
\* the opening and the closing delimiter is 0x7E, and every 0x7E, 0x7D, 0x11, 0x13
\* or 0xF8 of Frame || CRC is emitted as 0x7D followed by the byte XOR 0x20.
C19_EscapeClosure ==
    (codec.stage = "encoded" /\ ~codec.flipped) =>
        /\ \A k \in 2..(Len(codec.bytes) - 1) : codec.bytes[k] # 126
        /\ codec.bytes = <<126>> \o Escaped(FrameAndCrc(codec.frame[1])) \o <<126>>

\* C20 as stated: one bit inverted in the body or the CRC field of an encoded
\* frame makes HdlcLiteFrame::decode return Err(HdlcChecksum(c)), c a 16-bit CRC;
\* decode never returns a Frame for such bytes.
C20_CrcRejection ==
    (codec.stage = "decoded" /\ codec.flipped) =>
        /\ codec.result.tag = "Err"
        /\ codec.result.err = "HdlcChecksum"
        /\ codec.result.arg \in 0..65535

\* C21 as stated: for every buffer garbage || encoded_frame || more_bytes, where
\* encoded_frame is the HDLC encoding of a Frame, find_frame returns the indices
\* of the opening and the closing delimiter of exactly encoded_frame.
C21_FindsEncodedFrame ==
    (codec.stage = "found" /\ codec.frame # <<>>) =>
        LET g == Len(codec.frame[1].garbage)
            e == Len(HdlcLiteFrame_encode(<<>>, codec.frame[1].frame))
        IN  codec.result.val = <<g, g + e - 1>>

\* No frame lies in a buffer: it holds no delimiter, or no delimiter follows an
\* octet that is not one behind the first delimiter
NoFrameIn(b) ==
    \/ \A k \in DOMAIN b : b[k] # 126
    \/ LET p == Min({k \in DOMAIN b : b[k] = 126})
       IN  ~\E i, j \in DOMAIN b : p < i /\ i < j /\ b[i] # 126 /\ b[j] = 126

\* C22: find_frame returns None exactly when the buffer holds no 0x7E or no 0x7E
\* follows a non-delimiter octet behind the first run of delimiters; a result
\* (s, e) has bytes[s] = bytes[e] = 0x7E, e > s + 1 and no 0x7E strictly between
\* s and e, s being the last delimiter of the first run; it returns on every
\* buffer, one that ends with 0x7E included.
C22_FindFrameBoundaries ==
    (codec.stage = "found") =>
        LET b == codec.bytes
            r == codec.result.val
        IN  /\ codec.result.tag = "Ok"
            /\ (r = <<>>) <=> NoFrameIn(b)
            /\ r # <<>> =>
                 /\ r[1] \in 0..(Len(b) - 1) /\ r[2] \in 0..(Len(b) - 1)
                 /\ At(b, r[1]) = 126 /\ At(b, r[2]) = 126
                 /\ r[2] > r[1] + 1
                 /\ \A k \in (r[1] + 1)..(r[2] - 1) : At(b, k) # 126
                 /\ \A k \in 0..r[1] : At(b, k) = 126 => \A n \in k..r[1] : At(b, n) = 126

\* A run of two delimiters was taken for one boundary in a buffer ending in 0x7E
C22_Witness ==
    /\ codec.stage = "found"
    /\ codec.bytes = <<126, 126, 1, 126>>
    /\ codec.result.val = <<1, 3>>

----------------------------------------------------------------------------
(* Properties of the Spinel codec *)

\* C23: for every Frame with iid in 0..=3, tid in 0..=15 and command Noop, Reset,
\* PropertyValueGet(p) or PropertyValueIs(p, bytes) over the known properties,
\* Frame::decode(Frame::encode(f)) == f.
C23_FrameRoundTrip ==
    (codec.stage = "spinel_decoded" /\ codec.frame # <<>>) =>
        /\ codec.result.tag = "Ok"
        /\ codec.result.val = codec.frame[1]

\* A PropertyValueIs whose value has the continuation bit set came back whole
C23_Witness ==
    /\ codec.stage = "spinel_decoded"
    /\ codec.frame = <<Frame_new(Header_new(3, 15), PropertyValueIs("StreamLog", <<255>>))>>
    /\ codec.bytes = <<191, 6, 116, 255>>
    /\ codec.result.tag = "Ok"

\* C27: Header::try_from(byte) returns Err(Header(byte)) for every byte whose top
\* two bits are not 0b10 and otherwise the header with iid = bits 5-4 and
\* tid = bits 3-0; the header of iid 0..=3 and tid 0..=15 converted to its octet
\* and back is the same header; Frame::decode returns Err(PacketLength(n)) for
\* every buffer of length n < 2.
C27_HeaderAndShortFrame ==
    /\ codec.stage = "header_decoded" =>
         LET b == codec.bytes[1]
         IN  /\ IF b \notin 128..191
                THEN /\ codec.result.tag = "Err"
                     /\ codec.result.err = "Header"
                     /\ codec.result.arg = b
                ELSE /\ codec.result.tag = "Ok"
                     /\ codec.result.val.iid = (b - 128) \div 16
                     /\ codec.result.val.tid = b % 16
             /\ codec.frame # <<>> =>
                  /\ b = 128 + 16 * codec.frame[1].iid + codec.frame[1].tid
                  /\ codec.result.tag = "Ok"
                  /\ codec.result.val = codec.frame[1]
    /\ (codec.stage = "spinel_decoded" /\ Len(codec.bytes) < 2) =>
         /\ codec.result.tag = "Err"
         /\ codec.result.err = "PacketLength"
         /\ codec.result.arg = Len(codec.bytes)

\* The header of iid 3 and tid 15 went through its octet 0xBF and came back
C27_Witness ==
    /\ codec.stage = "header_decoded"
    /\ codec.frame = <<Header_new(3, 15)>>
    /\ codec.bytes = <<191>>
    /\ codec.result.tag = "Ok"

\* C24: for every v in 0..=2_097_151, PackedU32::decode of the first n octets of
\* PackedU32::encode(v) returns (v, packed_len(v)), n being the count encode
\* returns, and n = packed_len(v): 1 for 0..=127, 2 for 128..=16_383, 3 otherwise.
C24_PackedRoundTrip ==
    (codec.stage = "unpacked") =>
        LET v == codec.frame[1]
            n == Len(codec.bytes)
        IN  /\ n = (IF v <= 127 THEN 1 ELSE IF v <= 16383 THEN 2 ELSE 3)
            /\ n = packed_len(v)
            /\ codec.result.val = <<v, n>>

\* 16_384, the first value of three octets, came back from 80 80 01
C24_Witness ==
    /\ codec.stage = "unpacked"
    /\ codec.frame = <<16384>>
    /\ codec.bytes = <<128, 128, 1>>
    /\ codec.result.val = <<16384, 3>>

\* The first three octets of a buffer all carry the continuation bit
ThreeContinued(b) == Len(b) >= 3 /\ \A k \in 1..3 : b[k] >= 128

\* C25 as stated: a packed integer whose first three octets all have the
\* continuation bit set is rejected with PackedU32ByteCount by PackedU32's
\* byte-slice conversion and by Command::decode, where it stands for the command
\* id or for the property id; it is never decoded as id 0.
C25_OverlongRejected ==
    /\ (codec.stage = "packed_value" /\ ThreeContinued(codec.bytes)) =>
         /\ codec.result.tag = "Err"
         /\ codec.result.err = "PackedU32ByteCount"
    /\ (codec.stage = "command" /\ ThreeContinued(codec.bytes)) =>
         /\ codec.result.tag = "Err"
         /\ codec.result.err = "PackedU32ByteCount"
    /\ (/\ codec.stage = "command"
        /\ codec.bytes # <<>>
        /\ Head(codec.bytes) \in {2, 6}
        /\ ThreeContinued(Tail(codec.bytes))) =>
         /\ codec.result.tag = "Err"
         /\ codec.result.err = "PackedU32ByteCount"

\* The packed integer at the head of a buffer, <<value, octets>>, or <<>> when no
\* octet without continuation bit is among its first three
PackedId(b) ==
    IF \E k \in 1..3 : k <= Len(b) /\ b[k] < 128
    THEN LET n == Min({k \in 1..3 : k <= Len(b) /\ b[k] < 128})
         IN  <<(b[1] % 128) + (IF n >= 2 THEN 128 * (b[2] % 128) ELSE 0)
                 + (IF n >= 3 THEN 16384 * (b[3] % 128) ELSE 0), n>>
    ELSE <<>>

\* C28: Command::decode returns Err(PacketLength(0)) for the empty buffer, the
\* unknown-command error with the decoded id for every buffer whose packed
\* command id is not 0, 1, 2 or 6, and for a PropertyValueGet or PropertyValueIs
\* whose packed property id is none of the eight known ones the unknown-property
\* error with that id.
C28_CommandDecodeErrors ==
    (codec.stage = "command") =>
        LET b == codec.bytes
            c == PackedId(b)
            p == IF c = <<>> THEN <<>> ELSE PackedId(SubSeq(b, c[2] + 1, Len(b)))
        IN  /\ b = <<>> =>
                 /\ codec.result.tag = "Err"
                 /\ codec.result.err = "PacketLength"
                 /\ codec.result.arg = 0
            /\ (c # <<>> /\ c[1] \notin {0, 1, 2, 6}) =>
                 /\ codec.result.tag = "Err"
                 /\ codec.result.err = "Command"
                 /\ codec.result.arg = c[1]
            /\ (/\ c # <<>> /\ c[1] \in {2, 6}
                /\ p # <<>> /\ p[1] \notin {0, 1, 2, 3, 112, 113, 115, 116}) =>
                 /\ codec.result.tag = "Err"
                 /\ codec.result.err = "Property"
                 /\ codec.result.arg = p[1]

\* FF FF 7F was decoded as the unknown command 2_097_151
C28_Witness ==
    /\ codec.stage = "command"
    /\ codec.bytes = <<255, 255, 127>>
    /\ codec.result.tag = "Err"
    /\ codec.result.err = "Command"
    /\ codec.result.arg = 2097151

\* C26: HdlcLiteFrame::decode returns Err(HdlcStartDelimiter(b)) for every
\* non-empty slice whose first octet b is not 0x7E and Err(HdlcEndDelimiter(l))
\* for every slice that starts with 0x7E and whose last octet l is not 0x7E,
\* whatever lies between: no checksum or Spinel error, and no panic, comes first.
C26_DelimiterErrors ==
    (codec.stage = "decoded" /\ codec.frame = <<>> /\ codec.bytes # <<>>) =>
        LET b == codec.bytes[1]
            l == codec.bytes[Len(codec.bytes)]
        IN  /\ b # 126 =>
                 /\ codec.result.tag = "Err"
                 /\ codec.result.err = "HdlcStartDelimiter"
                 /\ codec.result.arg = b
            /\ (b = 126 /\ l # 126) =>
                 /\ codec.result.tag = "Err"
                 /\ codec.result.err = "HdlcEndDelimiter"
                 /\ codec.result.arg = l

\* 7E 7D 11 13 F8 was refused for its last octet
C26_Witness ==
    /\ codec.stage = "decoded"
    /\ codec.bytes = <<126, 125, 17, 19, 248>>
    /\ codec.result.tag = "Err"
    /\ codec.result.err = "HdlcEndDelimiter"
    /\ codec.result.arg = 248

\* The frames of the stream whose closing delimiter has reached the port
Arrived ==
    {k \in DOMAIN codec.frame :
        codec.frame[k].end <= codec.frame[Len(codec.frame)].end - Len(codec.bytes)}

\* C29 as stated: of a stream of well-formed frames, split into reads in any way
\* and with two delimiters or one shared 0x7E between consecutive frames, the
\* stream codec yields every frame once and in stream order, and no frame whose
\* closing delimiter has arrived is left undelivered once the codec has decoded
\* all it was given.
C29_EveryFrameOnceInOrder ==
    (codec.stage = "stream") =>
        /\ Len(bus["Debug"]) <= Len(codec.frame)
        /\ \A k \in DOMAIN bus["Debug"] : bus["Debug"][k] = codec.frame[k].frame
        /\ (io = <<>> /\ ~is_readable /\ ~has_errored /\ actor = "running") =>
              Len(bus["Debug"]) = Cardinality(Arrived)

\* C30: a response frame handed to a request's awaiter is the device's reply to
\* that request, never the reply to an earlier request that was given the same
\* TID, also after the TID has wrapped around and after a reset notification
C30_ResponseReachesItsRequest ==
    (ev.kind = "rx" /\ \E t \in TID_START..TID_MAX : <<t, "Frame">> \in ev.done) =>
        /\ <<device.reply.tid, "Frame">> \in ev.done
        /\ ~device.reply.later

\* C31: with 15 requests pending a further request is not refused: it is
\* transmitted with the next TID of the cycle, its one-shot sender replaces the
\* entry stored under that TID, and the caller awaiting the displaced request
\* observes HostConnectionRecv while the new caller gets its receiver
C31_ExhaustionOverwrites ==
    [][(Cardinality(DOMAIN lut) = TID_MAX /\ ev'.kind \in {"tx", "txfail"}) =>
         /\ TxTid(ev') = tid
         /\ ev'.caller = IF ev'.kind = "tx" THEN "Receiver" ELSE "Io"
         /\ ev'.kind = "tx" =>
              /\ DOMAIN lut' = DOMAIN lut
              /\ lut'[tid] = ev'.cmd
              /\ awaiting[tid] > 0 => <<tid, "HostConnectionRecv">> \in ev'.done
              /\ awaiting'[tid] = 1
              /\ \A k \in (DOMAIN awaiting) \ {tid} : awaiting'[k] = awaiting[k]]_vars

\* C31 witness: the sixteenth request has been transmitted over fifteen pending
\* ones, and the awaiter of the first has been failed
C31_Witness ==
    /\ ev.kind = "tx"
    /\ calls = TID_MAX + 1
    /\ Cardinality(DOMAIN lut) = TID_MAX
    /\ TxTid(ev) = TID_START
    /\ ev.done = {<<TID_START, "HostConnectionRecv">>}

\* The TIDs a request answered by the next frame of the read buffer can have:
\* the TID in the frame's header octet, when that octet carries the flag bits
FrameTids(b) ==
    LET found == find_frame(b)
    IN  IF found = <<>> \/ found[2] - found[1] < 2 THEN {}
        ELSE LET h == Header_try_from(At(b, found[1] + 1))
             IN  IF h.tag = "Ok" /\ h.val.tid # 0 THEN {h.val.tid} ELSE {}

\* C32: when an inbound frame fails to decode, the caller awaiting the request
\* the frame answers (the one pending under the frame's TID) completes with the
\* error
C32_CodecErrorReachesAwaiter ==
    [][ev'.kind = "rxerr" =>
         \A t \in FrameTids(rbuf) :
             awaiting[t] > 0 => (awaiting'[t] = 0 /\ \E o \in ev'.done : o[1] = t)]_vars

\* C33: a decoded TID 0 frame that is neither a reset notification (LastStatus
\* with a value in 112..120) nor Is(Stream Debug/Net/NetInsecure/Log) is
\* dropped: the TID counter, the table, the awaiters and the five buses are as
\* before
C33_OtherUnsolicitedDropped ==
    [][(/\ ev'.kind = "rx"
        /\ RxFrame(ev').header.tid = 0
        /\ MatchingBus(RxFrame(ev')) = "") =>
         /\ tid' = tid
         /\ lut' = lut
         /\ \A b \in Buses : bus'[b] = bus[b]
         /\ awaiting' = awaiting
         /\ ev'.done = {}
         /\ ev'.pub = ""]_vars

\* C33 witness: Is(LastStatus) with an empty payload has been decoded and
\* dropped while a request is pending
C33_Witness ==
    /\ ev.kind = "rx"
    /\ RxFrame(ev).header.tid = 0
    /\ RxFrame(ev).command = PropertyValueIs("LastStatus", <<>>)
    /\ DOMAIN lut = {1}
    /\ tid = 2
    /\ awaiting[1] = 1
    /\ \A b \in Buses : bus[b] = <<>>

\* C34: in every state of the actor the TID counter is in 1..15, every key of
\* the table is in 1..15 (never 0), and the table holds at most 15 entries
C34_TidAndTableInRange ==
    /\ tid \in TID_START..TID_MAX
    /\ DOMAIN lut \subseteq TID_START..TID_MAX
    /\ 0 \notin DOMAIN lut
    /\ Cardinality(DOMAIN lut) <= TID_MAX

\* C34 witness: the fifteenth request has filled the table and the counter has
\* wrapped to 1
C34_Witness ==
    /\ ev.kind = "tx"
    /\ calls = TID_MAX
    /\ DOMAIN lut = TID_START..TID_MAX
    /\ tid = TID_START

\* C35: a response the device sends after receiving a request frame is never
\* dropped as stray because of ordering inside the actor: when the actor
\* dispatches it, the one-shot sender of the request it answers is registered
\* under its TID already (no reset, no displacement in between)
C35_RegisteredBeforeDispatch ==
    [][ev'.kind = "rx" =>
         /\ actor = "running"
         /\ RxFrame(ev').header.tid = device.reply.tid
         /\ ev'.sink = <<device.reply.tid>>
         /\ <<device.reply.tid, "Frame">> \in ev'.done]_vars

\* C35 witness: the device's response is on the line while the actor is still
\* between send_frame and lut.insert
C35_Witness ==
    /\ actor = "sending"
    /\ io = DeviceResponse(RequestFrame(iid, tid, "Noop").header)
    /\ tid \notin DOMAIN lut

\* The calls that have not returned: their message is queued, or the caller
\* awaits a response under a TID
Outstanding == Len(msg) + Cardinality(Awaited(awaiting))

C37_TransmittedHeaderValid ==
    (ev.kind = "tx") =>
        LET octet == Frame_encode(TxFrame(ev))[1]
            h == Header_try_from(octet)
        IN  /\ octet \div 64 = HEADER_FLAG
            /\ h.tag = "Ok"
            /\ h.val.iid = iid
            /\ h.val.tid = TxFrame(ev).header.tid

\* The bytes the encoder has added to the buffer it was given
Appended == Slice(codec.bytes, Len(codec.frame[1].src), Len(codec.bytes))

\* C38: whatever the output buffer holds already, encode leaves those bytes in
\* place and appends the bytes it writes into an empty buffer, one complete
\* frame with the CRC of that frame alone, which decodes to the frame encoded
C38_EncodeAppendsWholeFrame ==
    /\ codec.stage \in {"appended", "appended_decoded"} =>
         /\ Slice(codec.bytes, 0, Len(codec.frame[1].src)) = codec.frame[1].src
         /\ Appended = HdlcLiteFrame_encode(<<>>, codec.frame[1].item)
    /\ codec.stage = "appended_decoded" =>
         /\ codec.result.tag = "Ok"
         /\ codec.result.val = codec.frame[1].item

\* C39: for any 32-bit value, PackedU32::encode reports at most 3 octets and
\* write_to_buffer neither panics nor writes octets that decode to another
\* value; a value above 2_097_151 is refused with PackedU32ByteCount
C39_WideValueRefused ==
    /\ codec.stage = "wide_encoded" =>
         /\ codec.result.tag = "Ok" => codec.result.val <= 3
         /\ codec.frame[1] > PACKED_MAX =>
              (codec.result.tag = "Err" /\ codec.result.err = "PackedU32ByteCount")
    /\ codec.stage = "wide_written" =>
         /\ codec.result.tag # "Panic"
         /\ codec.result.tag = "Ok" =>
              PackedU32_decode(codec.result.val)[1] = codec.frame[1]
         /\ codec.frame[1] > PACKED_MAX =>
              (codec.result.tag = "Err" /\ codec.result.err = "PackedU32ByteCount")

====
